---- MODULE Spec2Model ----
(***************************************************************************)
(* Model of the model-output parsing and normalization pipeline of the     *)
(* Word Vinder server: parseModelOutput (sanitizer, decoder, schema        *)
(* router), the Wordscapes and Scrabble normalizers and their helpers.     *)
(*                                                                         *)
(* A JavaScript value is a record: t is the type tag, and n, s, a, o hold  *)
(* the payload of a number or boolean, a string, an array and an object.   *)
(* A string is a sequence of atoms; an atom is one character or            *)
(* an indivisible run of characters (an identifier such as a schema name   *)
(* or a fixed diagnostic sentence) that contains no whitespace at its ends *)
(* and is not a single letter.  A number is an integer (tag "num") or the  *)
(* non-integer n + 1/2 (tag "frac").                                       *)
(***************************************************************************)
EXTENDS Integers, Sequences, FiniteSets, TLC

VARIABLES
  modelText,   \* the argument of the current call of parseModelOutput
  result,      \* what the call returned, or that it threw
  normalizer,  \* the per-game normalizer the call entered
  firstBoard,  \* the board whose serialisation was fed back as model text
  pc,          \* "ready" before the call, "parsed" after it
  summary,     \* what buildSummary returned for the board of the result
  lookup,      \* the arguments and the return value of getScrabblePoints
  pointsTable  \* the properties of the object SCRABBLE_POINTS

vars == <<modelText, result, normalizer, firstBoard, pc, summary, lookup, pointsTable>>

----------------------------------------------------------------------------
(* JavaScript values *)

NoProps == [key \in {} |-> 0]

Value(tag, number, string, array, object) ==
  [t |-> tag, n |-> number, s |-> string, a |-> array, o |-> object]

Undefined == Value("undefined", 0, <<>>, <<>>, NoProps)
JNull == Value("null", 0, <<>>, <<>>, NoProps)
JTrue == Value("bool", 1, <<>>, <<>>, NoProps)
JFalse == Value("bool", 0, <<>>, <<>>, NoProps)
JNum(n) == Value("num", n, <<>>, <<>>, NoProps)
JFrac(n) == Value("frac", n, <<>>, <<>>, NoProps)
JStr(s) == Value("str", 0, s, <<>>, NoProps)
JArr(a) == Value("arr", 0, <<>>, a, NoProps)
JObj(o) == Value("obj", 0, <<>>, <<>>, o)
NaN == Value("nan", 0, <<>>, <<>>, NoProps)

(* The outcome of an expression that raises a TypeError. *)
TypeError == Value("throw", 0, <<>>, <<>>, NoProps)

(* The value a function call leaves when an exception escapes it. *)
Thrown == [thrown |-> "TypeError"]

IsOk(r) == "ok" \in DOMAIN r /\ r.ok
IsThrown(r) == "thrown" \in DOMAIN r

(* parsed.key: the own property, or undefined when the key is absent *)
Get(obj, key) == IF key \in DOMAIN obj.o THEN obj.o[key] ELSE Undefined

(* ToBoolean *)
Truthy(value) ==
  CASE value.t \in {"undefined", "null", "nan", "throw"} -> FALSE
    [] value.t = "bool" -> value.n = 1
    [] value.t = "num" -> value.n # 0
    [] value.t = "str" -> value.s # <<>>
    [] OTHER -> TRUE

IsArray(x) == x.t = "arr"
IsString(x) == x.t = "str"
IsInteger(x) == x.t = "num"

Fail(code, message) == [ok |-> FALSE, error |-> [code |-> code, message |-> message]]

----------------------------------------------------------------------------
(* Characters and strings *)

Whitespace == {" ", "\n", "\t"}

LowerCase == <<"a", "b", "c", "d", "e", "f", "g", "h", "i", "j", "k", "l", "m",
               "n", "o", "p", "q", "r", "s", "t", "u", "v", "w", "x", "y", "z">>
UpperCase == <<"A", "B", "C", "D", "E", "F", "G", "H", "I", "J", "K", "L", "M",
               "N", "O", "P", "Q", "R", "S", "T", "U", "V", "W", "X", "Y", "Z">>
Letters == {UpperCase[i] : i \in 1..26}
Digits == <<"0", "1", "2", "3", "4", "5", "6", "7", "8", "9">>

(* String.prototype.toUpperCase, one atom at a time *)
UpperAtom(c) ==
  IF \E i \in 1..26 : LowerCase[i] = c
  THEN UpperCase[CHOOSE i \in 1..26 : LowerCase[i] = c]
  ELSE c

ToUpperCase(s) == [i \in 1..Len(s) |-> UpperAtom(s[i])]

(* String.prototype.trim *)
Trim(s) ==
  LET keep == {i \in 1..Len(s) : s[i] \notin Whitespace}
  IN IF keep = {} THEN <<>>
     ELSE SubSeq(s, CHOOSE i \in keep : \A j \in keep : i <= j,
                    CHOOSE i \in keep : \A j \in keep : i >= j)

(* /^[A-Z]$/.test(s) *)
IsSingleLetter(s) == Len(s) = 1 /\ s[1] \in Letters

(* /^[A-Z]+$/.test(s) *)
IsLetterWord(s) == Len(s) >= 1 /\ \A i \in 1..Len(s) : s[i] \in Letters

(* String.prototype.includes *)
Includes(word, token) ==
  \E i \in 1..(Len(word) - Len(token) + 1) : SubSeq(word, i, i + Len(token) - 1) = token

IsDigitString(s) == Len(s) >= 1 /\ \A i \in 1..Len(s) : \E d \in 1..10 : Digits[d] = s[i]

RECURSIVE DecimalValue(_)
DecimalValue(s) ==
  IF s = <<>> THEN 0
  ELSE 10 * DecimalValue(SubSeq(s, 1, Len(s) - 1))
       + (CHOOSE d \in 1..10 : Digits[d] = s[Len(s)]) - 1

(* Number(string): surrounding whitespace is ignored, the empty string is 0, *)
(* a run of decimal digits is its value, any other text of the alphabet NaN  *)
StringToNumber(s) ==
  LET body == Trim(s)
  IN IF body = <<>> THEN JNum(0)
     ELSE IF IsDigitString(body) THEN JNum(DecimalValue(body))
     ELSE NaN

(* ToString of a value throws when an object among its elements has an own *)
(* "toString" property: a decoded JSON value is never callable, and the    *)
(* inherited valueOf returns the object itself.                            *)
RECURSIVE ToStringThrows(_)
ToStringThrows(x) ==
  CASE x.t = "obj" -> "toString" \in DOMAIN x.o
    [] x.t = "arr" -> \E i \in 1..Len(x.a) : ToStringThrows(x.a[i])
    [] OTHER -> FALSE

(* Number(value) *)
RECURSIVE ToNumber(_)
ToNumber(x) ==
  CASE x.t = "undefined" -> NaN
    [] x.t = "null" -> JNum(0)
    [] x.t = "bool" -> JNum(x.n)
    [] x.t = "num" -> x
    [] x.t = "frac" -> x
    [] x.t = "str" -> StringToNumber(x.s)
    [] x.t = "obj" -> IF ToStringThrows(x) THEN TypeError ELSE NaN
    [] x.t = "arr" ->
         IF ToStringThrows(x) THEN TypeError
         ELSE IF Len(x.a) = 0 THEN JNum(0)
         ELSE IF Len(x.a) > 1 THEN NaN
         ELSE IF x.a[1].t \in {"null", "undefined"} THEN JNum(0)
         ELSE IF x.a[1].t = "bool" THEN NaN
         ELSE ToNumber(x.a[1])

----------------------------------------------------------------------------
(* utils *)

Atom(name) == <<name>>

SUSPICIOUS_TOKENS ==
  << <<"F", "R", "E", "E">>, <<"H", "I", "N", "T">>, <<"C", "O", "I", "N">>,
     <<"C", "O", "I", "N", "S">>, <<"L", "E", "V", "E", "L">>,
     <<"D", "A", "I", "L", "Y">> >>

isSuspiciousWord(word) ==
  \E k \in 1..Len(SUSPICIOUS_TOKENS) : Includes(word, SUSPICIOUS_TOKENS[k])

(* a deduplication that keeps the last occurrence of an item, not the first *)
RECURSIVE dedupeKeepLast(_)
dedupeKeepLast(items) ==
  IF items = <<>> THEN <<>>
  ELSE LET rest == dedupeKeepLast(Tail(items))
       IN IF \E i \in 1..Len(rest) : rest[i] = Head(items) THEN rest
          ELSE <<Head(items)>> \o rest

RECURSIVE dedupePreserveOrder(_)
dedupePreserveOrder(items) ==
  IF items = <<>> THEN <<>>
  ELSE LET seen == dedupePreserveOrder(SubSeq(items, 1, Len(items) - 1))
           item == items[Len(items)]
       IN IF \E i \in 1..Len(seen) : seen[i] = item THEN seen ELSE Append(seen, item)

isPlainObject(value) == value.t = "obj"

normalizeNotes(notesRaw) ==
  IF IsArray(notesRaw) THEN SelectSeq(notesRaw.a, IsString) ELSE <<>>

(* Array.prototype.sort by the length property: stable, ascending *)
LengthOf(entry) == entry.o.length.n

RECURSIVE SortFrom(_, _)
SortFrom(entries, n) ==
  IF n > 12 THEN <<>>
  ELSE LET HasLength(e) == LengthOf(e) = n
       IN SelectSeq(entries, HasLength) \o SortFrom(entries, n + 1)

SortByLength(entries) == SortFrom(entries, 3)

MissingEntry(length, count) == JObj([length |-> JNum(length), count |-> count])

(* a merge in which an unknown count is forgotten when a later entry of the *)
(* same length carries a number                                             *)
RECURSIVE mergedMapNullAsZero(_)
mergedMapNullAsZero(entries) ==
  IF entries = <<>> THEN [n \in {} |-> JNull]
  ELSE LET merged == mergedMapNullAsZero(SubSeq(entries, 1, Len(entries) - 1))
           entry == entries[Len(entries)]
           len == entry.o.length.n
       IN IF len \notin DOMAIN merged
          THEN [n \in DOMAIN merged \cup {len} |->
                  IF n = len THEN entry.o.count ELSE merged[n]]
          ELSE IF entry.o.count = JNull THEN [merged EXCEPT ![len] = JNull]
          ELSE [merged EXCEPT ![len] = JNum(merged[len].n + entry.o.count.n)]

(* the Map of mergeMissingByLength: length -> merged entry count *)
RECURSIVE mergedMap(_)
mergedMap(entries) ==
  IF entries = <<>> THEN [n \in {} |-> JNull]
  ELSE LET merged == mergedMap(SubSeq(entries, 1, Len(entries) - 1))
           entry == entries[Len(entries)]
           len == LengthOf(entry)
       IN IF len \notin DOMAIN merged
          THEN [n \in DOMAIN merged \cup {len} |->
                  IF n = len THEN entry.o.count ELSE merged[n]]
          ELSE IF merged[len] = JNull \/ entry.o.count = JNull
          THEN [merged EXCEPT ![len] = JNull]
          ELSE [merged EXCEPT ![len] = JNum(merged[len].n + entry.o.count.n)]

RECURSIVE MapValuesFrom(_, _)
MapValuesFrom(merged, n) ==
  IF n > 12 THEN <<>>
  ELSE (IF n \in DOMAIN merged THEN <<MissingEntry(n, merged[n])>> ELSE <<>>)
       \o MapValuesFrom(merged, n + 1)

mergeMissingByLength(entries) == MapValuesFrom(mergedMap(entries), 3)

----------------------------------------------------------------------------
(* wordscapes *)

(* an allow-list that lets one more key through *)
AllowedKeysWithCheatCode ==
  {"schema", "game", "letters", "missingByLength", "wordLists",
   "solvedWordsByLength", "notes", "cheatCode"}

ALLOWED_TOP_LEVEL_KEYS_WORDSCAPES ==
  {"schema", "game", "letters", "missingByLength", "wordLists",
   "solvedWordsByLength", "notes"}

SchemaInvalid(message) == Fail("MODEL_OUTPUT_SCHEMA_INVALID", message)

RECURSIVE lettersLoop(_, _)
lettersLoop(lettersRaw, i) ==
  IF i = 0 THEN [ok |-> TRUE, letters |-> <<>>]
  ELSE LET before == lettersLoop(lettersRaw, i - 1)
           letter == lettersRaw[i]
           normalized == ToUpperCase(Trim(letter.s))
       IN IF ~IsOk(before) THEN before
          ELSE IF ~IsString(letter)
          THEN SchemaInvalid("letters must contain single A-Z characters.")
          ELSE IF ~IsSingleLetter(normalized)
          THEN SchemaInvalid("letters must contain single A-Z characters.")
          ELSE [ok |-> TRUE, letters |-> Append(before.letters, JStr(normalized))]

normalizeLetters(lettersRaw) ==
  IF ~IsArray(lettersRaw) THEN SchemaInvalid("letters must be an array.")
  ELSE IF Len(lettersRaw.a) < 5 \/ Len(lettersRaw.a) > 8
  THEN SchemaInvalid("letters must contain 5 to 8 items.")
  ELSE LET loop == lettersLoop(lettersRaw.a, Len(lettersRaw.a))
       IN IF ~IsOk(loop) THEN loop
          ELSE LET dedupedLetters == dedupePreserveOrder(loop.letters)
               IN IF Len(dedupedLetters) < 5
                  THEN SchemaInvalid("letters must contain at least 5 unique characters.")
                  ELSE [ok |-> TRUE, letters |-> dedupedLetters]

(* one iteration of the loop of normalizeMissingByLength *)
missingEntry(entry) ==
  IF entry.t # "obj"
  THEN SchemaInvalid("missingByLength entries must be objects.")
  ELSE LET rawLength == ToNumber(Get(entry, "length"))
           rawCount == ToNumber(Get(entry, "count"))
       IN IF rawLength = TypeError THEN Thrown
          ELSE IF ~IsInteger(rawLength) \/ rawLength.n < 3 \/ rawLength.n > 12
          THEN SchemaInvalid("missingByLength length must be an integer between 3 and 12.")
          ELSE IF Get(entry, "count") = JNull
          THEN [ok |-> TRUE, entry |-> MissingEntry(rawLength.n, JNull)]
          ELSE IF rawCount = TypeError THEN Thrown
          ELSE IF ~IsInteger(rawCount) \/ rawCount.n < 0 \/ rawCount.n > 20
          THEN SchemaInvalid("missingByLength count must be null or an integer between 0 and 20.")
          ELSE [ok |-> TRUE, entry |-> MissingEntry(rawLength.n, rawCount)]

RECURSIVE missingLoop(_, _)
missingLoop(missingRaw, i) ==
  IF i = 0 THEN [ok |-> TRUE, entries |-> <<>>]
  ELSE LET before == missingLoop(missingRaw, i - 1)
           this == missingEntry(missingRaw[i])
       IN IF ~IsOk(before) THEN before
          ELSE IF ~IsOk(this) THEN this
          ELSE [ok |-> TRUE, entries |-> Append(before.entries, this.entry)]

normalizeMissingByLength(missingRaw) ==
  IF ~IsArray(missingRaw) THEN SchemaInvalid("missingByLength must be an array.")
  ELSE LET loop == missingLoop(missingRaw.a, Len(missingRaw.a))
       IN IF ~IsOk(loop) THEN loop
          ELSE [ok |-> TRUE, missingByLength |-> mergeMissingByLength(loop.entries)]

(* a slot check that forgets to compare the word with the entry's length *)
normalizeSlotAnyLength(slot, rawLength) ==
  IF ~IsString(slot) THEN JNull
  ELSE LET normalized == ToUpperCase(Trim(slot.s))
       IN IF ~IsLetterWord(normalized) \/ isSuspiciousWord(normalized)
          THEN JNull
          ELSE JStr(normalized)

(* the slot callback of normalizeWordLists *)
normalizeSlot(slot, rawLength) ==
  IF ~IsString(slot) THEN JNull
  ELSE LET normalized == ToUpperCase(Trim(slot.s))
       IN IF ~IsLetterWord(normalized) \/ Len(normalized) # rawLength
             \/ isSuspiciousWord(normalized)
          THEN JNull
          ELSE JStr(normalized)

WordListEntry(length, slots) == JObj([length |-> JNum(length), slots |-> JArr(slots)])

RECURSIVE wordListsLoop(_, _)
wordListsLoop(wordListsRaw, i) ==
  IF i = 0 THEN [ok |-> TRUE, entries |-> <<>>]
  ELSE LET before == wordListsLoop(wordListsRaw, i - 1)
           entry == wordListsRaw[i]
           rawLength == ToNumber(Get(entry, "length"))
           slotsRaw == Get(entry, "slots")
       IN IF ~IsOk(before) THEN before
          ELSE IF ~isPlainObject(entry) THEN before
          ELSE IF rawLength = TypeError THEN Thrown
          ELSE IF ~IsInteger(rawLength) \/ rawLength.n < 3 \/ rawLength.n > 12 THEN before
          ELSE IF ~IsArray(slotsRaw) THEN before
          ELSE [ok |-> TRUE,
                entries |-> Append(before.entries,
                  WordListEntry(rawLength.n,
                    [k \in 1..Len(slotsRaw.a) |-> normalizeSlot(slotsRaw.a[k], rawLength.n)]))]

(* returns the value and the notes array it may have pushed to *)
normalizeWordLists(wordListsRaw, notes) ==
  IF wordListsRaw = Undefined THEN [ok |-> TRUE, value |-> Undefined, notes |-> notes]
  ELSE IF ~IsArray(wordListsRaw)
  THEN [ok |-> TRUE, value |-> Undefined,
        notes |-> Append(notes, JStr(Atom("Ignored invalid wordLists (not an array)")))]
  ELSE LET loop == wordListsLoop(wordListsRaw.a, Len(wordListsRaw.a))
       IN IF ~IsOk(loop) THEN loop
          ELSE [ok |-> TRUE, value |-> JArr(SortByLength(loop.entries)), notes |-> notes]

SolvedEntry(length, words) == JObj([length |-> JNum(length), words |-> JArr(words)])

(* the words of all slots of the entries of one length, in entry order *)
RECURSIVE groupedWords(_, _)
groupedWords(wordLists, len) ==
  IF wordLists = <<>> THEN <<>>
  ELSE LET entry == wordLists[Len(wordLists)]
           IsWord(word) == word # JNull
       IN groupedWords(SubSeq(wordLists, 1, Len(wordLists) - 1), len)
          \o (IF LengthOf(entry) = len THEN SelectSeq(entry.o.slots.a, IsWord) ELSE <<>>)

(* a derivation that keeps repeated words *)
RECURSIVE derivedFromKeepingRepeats(_, _)
derivedFromKeepingRepeats(wordLists, n) ==
  IF n > 12 THEN <<>>
  ELSE (IF groupedWords(wordLists, n) # <<>>
        THEN <<SolvedEntry(n, groupedWords(wordLists, n))>>
        ELSE <<>>)
       \o derivedFromKeepingRepeats(wordLists, n + 1)

RECURSIVE derivedFrom(_, _)
derivedFrom(wordLists, n) ==
  IF n > 12 THEN <<>>
  ELSE (IF groupedWords(wordLists, n) # <<>>
        THEN <<SolvedEntry(n, dedupePreserveOrder(groupedWords(wordLists, n)))>>
        ELSE <<>>)
       \o derivedFrom(wordLists, n + 1)

deriveSolvedWordsFromWordLists(wordLists) ==
  IF ~IsArray(wordLists) THEN JNull ELSE JArr(derivedFrom(wordLists.a, 3))

(* the inner loop of normalizeSolvedWordsByLength *)
RECURSIVE solvedWords(_, _)
solvedWords(wordsRaw, rawLength) ==
  IF wordsRaw = <<>> THEN <<>>
  ELSE LET words == solvedWords(SubSeq(wordsRaw, 1, Len(wordsRaw) - 1), rawLength)
           word == wordsRaw[Len(wordsRaw)]
       IN IF normalizeSlot(word, rawLength) = JNull THEN words
          ELSE Append(words, normalizeSlot(word, rawLength))

RECURSIVE solvedLoop(_, _)
solvedLoop(solvedRaw, i) ==
  IF i = 0 THEN [ok |-> TRUE, entries |-> <<>>]
  ELSE LET before == solvedLoop(solvedRaw, i - 1)
           entry == solvedRaw[i]
           rawLength == ToNumber(Get(entry, "length"))
           wordsRaw == Get(entry, "words")
       IN IF ~IsOk(before) THEN before
          ELSE IF ~isPlainObject(entry) THEN before
          ELSE IF rawLength = TypeError THEN Thrown
          ELSE IF ~IsInteger(rawLength) \/ rawLength.n < 3 \/ rawLength.n > 12 THEN before
          ELSE IF ~IsArray(wordsRaw) THEN before
          ELSE [ok |-> TRUE,
                entries |-> Append(before.entries,
                  SolvedEntry(rawLength.n,
                    dedupePreserveOrder(solvedWords(wordsRaw.a, rawLength.n))))]

normalizeSolvedWordsByLength(solvedRaw, notes) ==
  IF solvedRaw = Undefined THEN [ok |-> TRUE, value |-> Undefined, notes |-> notes]
  ELSE IF ~IsArray(solvedRaw)
  THEN [ok |-> TRUE, value |-> Undefined,
        notes |-> Append(notes, JStr(Atom("Ignored invalid solvedWordsByLength (not an array)")))]
  ELSE LET loop == solvedLoop(solvedRaw.a, Len(solvedRaw.a))
       IN IF ~IsOk(loop) THEN loop
          ELSE [ok |-> TRUE, value |-> JArr(SortByLength(loop.entries)), notes |-> notes]

WORDSCAPES_SCHEMA == Atom("WORDVINDER_BOARD_EXTRACT_V4")
WORDSCAPES_GAME == Atom("WORDSCAPES")

NonEmptyArray(x) == IsArray(x) /\ Len(x.a) > 0

(* the object literal a successful parseWordscapes returns as board *)
wordscapesBoard(letters, missingByLength, notes, wordLists, solvedWordsByLength) ==
  LET keys == {"schema", "game", "letters", "missingByLength", "notes"}
                \cup (IF NonEmptyArray(wordLists) THEN {"wordLists"} ELSE {})
                \cup (IF NonEmptyArray(solvedWordsByLength)
                      THEN {"solvedWordsByLength"} ELSE {})
  IN JObj([key \in keys |->
       CASE key = "schema" -> JStr(WORDSCAPES_SCHEMA)
         [] key = "game" -> JStr(WORDSCAPES_GAME)
         [] key = "letters" -> JArr(letters)
         [] key = "missingByLength" -> JArr(missingByLength)
         [] key = "notes" -> JArr(notes)
         [] key = "wordLists" -> wordLists
         [] key = "solvedWordsByLength" -> solvedWordsByLength])

parseWordscapes(parsed) ==
  LET invalidKeys == DOMAIN parsed.o \ ALLOWED_TOP_LEVEL_KEYS_WORDSCAPES
      lettersResult == normalizeLetters(Get(parsed, "letters"))
      missingResult == normalizeMissingByLength(Get(parsed, "missingByLength"))
      notes == normalizeNotes(Get(parsed, "notes"))
      wordLists == normalizeWordLists(Get(parsed, "wordLists"), notes)
      solved == IF NonEmptyArray(wordLists.value)
                THEN [ok |-> TRUE,
                      value |-> deriveSolvedWordsFromWordLists(wordLists.value),
                      notes |-> wordLists.notes]
                ELSE normalizeSolvedWordsByLength(Get(parsed, "solvedWordsByLength"),
                                                  wordLists.notes)
  IN IF invalidKeys # {}
     THEN [ok |-> FALSE,
           error |-> [code |-> "MODEL_OUTPUT_SCHEMA_INVALID",
                      message |-> "Model output JSON contains unexpected keys.",
                      details |-> invalidKeys]]
     ELSE IF Get(parsed, "letters") = Undefined \/ Get(parsed, "missingByLength") = Undefined
     THEN SchemaInvalid("Model output JSON is missing required fields.")
     ELSE IF ~IsOk(lettersResult) THEN lettersResult
     ELSE IF ~IsOk(missingResult) THEN missingResult
     ELSE IF ~IsOk(wordLists) THEN wordLists
     ELSE IF ~IsOk(solved) THEN solved
     ELSE [ok |-> TRUE,
           board |-> wordscapesBoard(lettersResult.letters, missingResult.missingByLength,
                                     solved.notes, wordLists.value, solved.value)]

----------------------------------------------------------------------------
(* scrabble *)

ALLOWED_TOP_LEVEL_KEYS_SCRABBLE == {"schema", "game", "rack", "board", "notes"}

SCRABBLE_SCHEMA == Atom("WORDVINDER_SCRABBLE_EXTRACT_V1")
SCRABBLE_GAME == Atom("SCRABBLE")

(* the frozen table of tile values *)
SCRABBLE_POINTS ==
  [A |-> 3, B |-> 3, C |-> 3, D |-> 2, E |-> 3, F |-> 4, G |-> 5, H |-> 5, I |-> 3,
   J |-> 8, K |-> 5, L |-> 1, M |-> 3, N |-> 3, O |-> 3, P |-> 6, Q |-> 10, R |-> 1,
   S |-> 1, T |-> 3, U |-> 1, V |-> 5, W |-> 4, X |-> 8, Y |-> 4, Z |-> 10]

(* a lookup that takes only the literal true for a blank *)
getScrabblePointsStrictBlank(letter, isBlank) ==
  LET normalized == ToUpperCase(Trim(letter.s))
  IN IF isBlank = JTrue THEN JNum(0)
     ELSE IF ~IsString(letter) THEN JNull
     ELSE IF ~IsSingleLetter(normalized) THEN JNull
     ELSE JNum(pointsTable[normalized[1]])

getScrabblePoints(letter, isBlank) ==
  LET normalized == ToUpperCase(Trim(letter.s))
  IN IF Truthy(isBlank) THEN JNum(0)
     ELSE IF ~IsString(letter) THEN JNull
     ELSE IF ~IsSingleLetter(normalized) THEN JNull
     ELSE LET points == pointsTable[normalized[1]]
          IN IF points \in Int THEN JNum(points) ELSE JNull

RackTile(letter, isBlank) == JObj([letter |-> letter, isBlank |-> isBlank])

(* an iteration that takes any truthy isBlank for a blank *)
rackTileTruthyBlank(tile) ==
  IF ~isPlainObject(tile) THEN SchemaInvalid("rack tiles must be objects.")
  ELSE LET isBlank == Truthy(Get(tile, "isBlank"))
           letterRaw == Get(tile, "letter")
           normalized == ToUpperCase(Trim(letterRaw.s))
       IN IF letterRaw # JNull /\ letterRaw # Undefined /\ ~IsString(letterRaw)
          THEN SchemaInvalid("rack tile letter must be a string or null.")
          ELSE [ok |-> TRUE,
                tile |-> RackTile(
                  IF isBlank THEN JNull
                  ELSE IF IsString(letterRaw) /\ IsSingleLetter(normalized)
                  THEN JStr(normalized)
                  ELSE JNull,
                  IF isBlank THEN JTrue ELSE JFalse)]

(* one iteration of the loop of normalizeScrabbleRack *)
rackTile(tile) ==
  IF ~isPlainObject(tile) THEN SchemaInvalid("rack tiles must be objects.")
  ELSE LET isBlank == Get(tile, "isBlank") = JTrue
           letterRaw == Get(tile, "letter")
           normalized == ToUpperCase(Trim(letterRaw.s))
       IN IF letterRaw # JNull /\ letterRaw # Undefined /\ ~IsString(letterRaw)
          THEN SchemaInvalid("rack tile letter must be a string or null.")
          ELSE [ok |-> TRUE,
                tile |-> RackTile(
                  IF isBlank THEN JNull
                  ELSE IF IsString(letterRaw) /\ IsSingleLetter(normalized)
                  THEN JStr(normalized)
                  ELSE JNull,
                  IF isBlank THEN JTrue ELSE JFalse)]

RECURSIVE rackLoop(_, _)
rackLoop(rackRaw, i) ==
  IF i = 0 THEN [ok |-> TRUE, rack |-> <<>>]
  ELSE LET before == rackLoop(rackRaw, i - 1)
           this == rackTile(rackRaw[i])
       IN IF ~IsOk(before) THEN before
          ELSE IF ~IsOk(this) THEN this
          ELSE [ok |-> TRUE, rack |-> Append(before.rack, this.tile)]

normalizeScrabbleRack(rackRaw) ==
  IF ~IsArray(rackRaw) THEN SchemaInvalid("rack must be an array.")
  ELSE IF Len(rackRaw.a) > 7 THEN SchemaInvalid("rack must contain 0 to 7 tiles.")
  ELSE rackLoop(rackRaw.a, Len(rackRaw.a))

(* the inner loop of normalizeScrabbleBoard, over the cells of one row *)
RECURSIVE cellLoop(_, _)
cellLoop(row, i) ==
  IF i = 0 THEN [ok |-> TRUE, row |-> <<>>]
  ELSE LET before == cellLoop(row, i - 1)
           cell == row[i]
           normalized == ToUpperCase(Trim(cell.s))
       IN IF ~IsOk(before) THEN before
          ELSE IF cell = JNull THEN [ok |-> TRUE, row |-> Append(before.row, JNull)]
          ELSE IF ~IsString(cell)
          THEN SchemaInvalid("board tiles must be null or A-Z strings.")
          ELSE IF ~IsSingleLetter(normalized)
          THEN SchemaInvalid("board tiles must be null or A-Z strings.")
          ELSE [ok |-> TRUE, row |-> Append(before.row, JStr(normalized))]

RECURSIVE rowLoop(_, _)
rowLoop(tilesRaw, i) ==
  IF i = 0 THEN [ok |-> TRUE, tiles |-> <<>>]
  ELSE LET before == rowLoop(tilesRaw, i - 1)
           row == tilesRaw[i]
           cells == cellLoop(row.a, Len(row.a))
       IN IF ~IsOk(before) THEN before
          ELSE IF ~IsArray(row) \/ Len(row.a) # 15
          THEN SchemaInvalid("board tiles must be a 15x15 array.")
          ELSE IF ~IsOk(cells) THEN cells
          ELSE [ok |-> TRUE, tiles |-> Append(before.tiles, JArr(cells.row))]

normalizeScrabbleBoard(boardRaw) ==
  IF ~isPlainObject(boardRaw) THEN SchemaInvalid("board must be an object.")
  ELSE LET size == ToNumber(Get(boardRaw, "size"))
           tilesRaw == Get(boardRaw, "tiles")
           rows == rowLoop(tilesRaw.a, Len(tilesRaw.a))
       IN IF size = TypeError THEN Thrown
          ELSE IF ~IsInteger(size) \/ size.n # 15
          THEN SchemaInvalid("board size must be 15.")
          ELSE IF ~IsArray(tilesRaw) \/ Len(tilesRaw.a) # 15
          THEN SchemaInvalid("board tiles must be a 15x15 array.")
          ELSE IF ~IsOk(rows) THEN rows
          ELSE [ok |-> TRUE,
                board |-> JObj([size |-> JNum(15), tiles |-> JArr(rows.tiles)])]

parseScrabble(parsed) ==
  LET invalidKeys == DOMAIN parsed.o \ ALLOWED_TOP_LEVEL_KEYS_SCRABBLE
      rackResult == normalizeScrabbleRack(Get(parsed, "rack"))
      boardResult == normalizeScrabbleBoard(Get(parsed, "board"))
      notes == normalizeNotes(Get(parsed, "notes"))
  IN IF invalidKeys # {}
     THEN [ok |-> FALSE,
           error |-> [code |-> "MODEL_OUTPUT_SCHEMA_INVALID",
                      message |-> "Model output JSON contains unexpected keys.",
                      details |-> invalidKeys]]
     ELSE IF Get(parsed, "rack") = Undefined \/ Get(parsed, "board") = Undefined
     THEN SchemaInvalid("Model output JSON is missing required fields.")
     ELSE IF ~IsOk(rackResult) THEN rackResult
     ELSE IF ~IsOk(boardResult) THEN boardResult
     ELSE [ok |-> TRUE,
           board |-> JObj([schema |-> JStr(SCRABBLE_SCHEMA), game |-> JStr(SCRABBLE_GAME),
                           rack |-> JArr(rackResult.rack), board |-> boardResult.board,
                           notes |-> JArr(notes)])]

----------------------------------------------------------------------------
(* scrabble, the variant whose rack tiles carry points *)

PointsTile(letter, points, isBlank) ==
  JObj([letter |-> letter, points |-> points, isBlank |-> isBlank])

(* one iteration of the loop of normalizeScrabbleRack, variant with points *)
rackTileWithPoints(tile) ==
  IF ~isPlainObject(tile) THEN SchemaInvalid("rack tiles must be objects.")
  ELSE LET isBlank == Get(tile, "isBlank") = JTrue
           rawPoints == ToNumber(Get(tile, "points"))
           letterRaw == Get(tile, "letter")
           normalized == ToUpperCase(Trim(letterRaw.s))
           letter == IF IsString(letterRaw) THEN JStr(normalized) ELSE JNull
       IN IF rawPoints = TypeError THEN Thrown
          ELSE IF ~IsInteger(rawPoints) \/ rawPoints.n < 0 \/ rawPoints.n > 10
          THEN SchemaInvalid("rack tile points must be an integer between 0 and 10.")
          ELSE IF letterRaw # JNull /\ letterRaw # Undefined /\ ~IsString(letterRaw)
          THEN SchemaInvalid("rack tile letter must be a string or null.")
          ELSE IF IsString(letterRaw) /\ ~IsSingleLetter(normalized)
          THEN SchemaInvalid("rack tile letter must be a single A-Z character.")
          ELSE IF isBlank /\ (letter # JNull \/ rawPoints # JNum(0))
          THEN SchemaInvalid("blank tiles must have null letter and 0 points.")
          ELSE IF ~isBlank /\ letter = JNull
          THEN SchemaInvalid("non-blank tiles must have a letter.")
          ELSE [ok |-> TRUE,
                tile |-> PointsTile(letter, rawPoints, IF isBlank THEN JTrue ELSE JFalse)]

RECURSIVE rackLoopWithPoints(_, _)
rackLoopWithPoints(rackRaw, i) ==
  IF i = 0 THEN [ok |-> TRUE, rack |-> <<>>]
  ELSE LET before == rackLoopWithPoints(rackRaw, i - 1)
           this == rackTileWithPoints(rackRaw[i])
       IN IF ~IsOk(before) THEN before
          ELSE IF ~IsOk(this) THEN this
          ELSE [ok |-> TRUE, rack |-> Append(before.rack, this.tile)]

normalizeScrabbleRackWithPoints(rackRaw) ==
  IF ~IsArray(rackRaw) THEN SchemaInvalid("rack must be an array.")
  ELSE IF Len(rackRaw.a) > 7 THEN SchemaInvalid("rack must contain 0 to 7 tiles.")
  ELSE rackLoopWithPoints(rackRaw.a, Len(rackRaw.a))

parseScrabbleWithPoints(parsed) ==
  LET invalidKeys == DOMAIN parsed.o \ ALLOWED_TOP_LEVEL_KEYS_SCRABBLE
      rackResult == normalizeScrabbleRackWithPoints(Get(parsed, "rack"))
      boardResult == normalizeScrabbleBoard(Get(parsed, "board"))
      notes == normalizeNotes(Get(parsed, "notes"))
  IN IF invalidKeys # {}
     THEN [ok |-> FALSE,
           error |-> [code |-> "MODEL_OUTPUT_SCHEMA_INVALID",
                      message |-> "Model output JSON contains unexpected keys.",
                      details |-> invalidKeys]]
     ELSE IF Get(parsed, "rack") = Undefined \/ Get(parsed, "board") = Undefined
     THEN SchemaInvalid("Model output JSON is missing required fields.")
     ELSE IF ~IsOk(rackResult) THEN rackResult
     ELSE IF ~IsOk(boardResult) THEN boardResult
     ELSE [ok |-> TRUE,
           board |-> JObj([schema |-> JStr(SCRABBLE_SCHEMA), game |-> JStr(SCRABBLE_GAME),
                           rack |-> JArr(rackResult.rack), board |-> boardResult.board,
                           notes |-> JArr(notes)])]

----------------------------------------------------------------------------
(* model text: a string whose atoms are characters, or the serialised text  *)
(* of one JSON value (the characters JSON.stringify writes for it)          *)

Ch(c) == [k |-> "ch", c |-> c, d |-> Undefined]
Doc(value) == [k |-> "doc", c |-> "", d |-> value]

IsSpace(atom) == atom.k = "ch" /\ atom.c \in Whitespace

(* String.prototype.trim on model text *)
TrimText(text) ==
  LET keep == {i \in 1..Len(text) : ~IsSpace(text[i])}
  IN IF keep = {} THEN <<>>
     ELSE SubSeq(text, CHOOSE i \in keep : \A j \in keep : i <= j,
                       CHOOSE i \in keep : \A j \in keep : i >= j)

(* the atom of the backquote character (ASCII 96) *)
Backquote == "BACKQUOTE"

IsFence(text, i) == \A j \in i..(i + 2) : text[j] = Ch(Backquote)

(* a tag test that knows the lower-case spelling only *)
HasLowerCaseJsonTag(text) ==
  /\ Len(text) >= 7
  /\ [j \in 1..4 |-> text[3 + j]] = <<Ch("j"), Ch("s"), Ch("o"), Ch("n")>>

(* does the optional json tag, case-insensitive, follow the opening fence *)
HasJsonTag(text) ==
  /\ Len(text) >= 7
  /\ \A j \in 1..4 : text[3 + j].k = "ch"
  /\ [j \in 1..4 |-> UpperAtom(text[3 + j].c)] = <<"J", "S", "O", "N">>

(* the fenced-block match of the trimmed text: an opening fence, an optional *)
(* json tag, the lazily captured inner text, a closing fence at the end; the *)
(* captured group is returned trimmed                                       *)
stripCodeFences(text) ==
  LET trimmed == TrimText(text)
      fencedMatch == Len(trimmed) >= 6 /\ IsFence(trimmed, 1)
                       /\ IsFence(trimmed, Len(trimmed) - 2)
      from == IF HasJsonTag(trimmed) THEN 8 ELSE 4
  IN IF fencedMatch THEN TrimText(SubSeq(trimmed, from, Len(trimmed) - 3))
     ELSE trimmed

(* the first / last character of the text *)
StartsWithBrace(text) ==
  Len(text) > 0 /\ (text[1] = Ch("{") \/ (text[1].k = "doc" /\ text[1].d.t = "obj"))
EndsWithBrace(text) ==
  Len(text) > 0 /\ (text[Len(text)] = Ch("}")
                      \/ (text[Len(text)].k = "doc" /\ text[Len(text)].d.t = "obj"))

(* JSON.parse: the text of exactly one value, whitespace around it allowed; *)
(* the characters "{" "}" with only whitespace between them are the empty   *)
(* object; any other text of the alphabet is a syntax error                 *)
JsonParse(text) ==
  LET body == TrimText(text)
  IN IF Len(body) = 1 /\ body[1].k = "doc" THEN [ok |-> TRUE, value |-> body[1].d]
     ELSE IF Len(body) >= 2 /\ body[1] = Ch("{") /\ body[Len(body)] = Ch("}")
             /\ \A i \in 2..(Len(body) - 1) : IsSpace(body[i])
     THEN [ok |-> TRUE, value |-> JObj(NoProps)]
     ELSE [ok |-> FALSE, message |-> "SyntaxError"]

(* JSON.stringify(board) as model text *)
JsonStringify(value) == <<Doc(value)>>

NotJson(message) == Fail("MODEL_OUTPUT_NOT_JSON", message)

(* a router that looks at the game alone *)
IsWordscapesPairGameOnly(parsed) == Get(parsed, "game") = JStr(WORDSCAPES_GAME)

IsWordscapesPair(parsed) ==
  Get(parsed, "schema") = JStr(WORDSCAPES_SCHEMA) /\ Get(parsed, "game") = JStr(WORDSCAPES_GAME)

IsScrabblePair(parsed) ==
  Get(parsed, "schema") = JStr(SCRABBLE_SCHEMA) /\ Get(parsed, "game") = JStr(SCRABBLE_GAME)

(* the return of a normalizer's result from parseModelOutput *)
withRawPayload(normalized, parsed) ==
  IF IsOk(normalized)
  THEN [ok |-> TRUE, board |-> normalized.board, rawPayload |-> parsed]
  ELSE normalized

(* parseModelOutput up to and including JSON.parse *)
decodeModelText(text) ==
  LET normalizedText == stripCodeFences(text.text)
      decoded == JsonParse(normalizedText)
  IN IF ~text.isString THEN NotJson("Model output is not text.")
     ELSE IF ~StartsWithBrace(normalizedText) \/ ~EndsWithBrace(normalizedText)
     THEN NotJson("Model output does not look like JSON.")
     ELSE IF ~decoded.ok
     THEN [ok |-> FALSE,
           error |-> [code |-> "MODEL_OUTPUT_NOT_JSON",
                      message |-> "Model output could not be parsed as JSON.",
                      details |-> {decoded.message}]]
     ELSE [ok |-> TRUE, parsed |-> decoded.value]

(* parseModelOutput after JSON.parse: the plain-object check and the schema *)
(* router; normalizer names the per-game normalizer that was called         *)
routeParsed(parsed) ==
  IF ~isPlainObject(parsed)
  THEN [normalizer |-> "none",
        result |-> SchemaInvalid("Model output JSON is not an object.")]
  ELSE IF ~IsString(Get(parsed, "schema")) \/ ~IsString(Get(parsed, "game"))
  THEN [normalizer |-> "none",
        result |-> SchemaInvalid("Model output JSON is missing required fields.")]
  ELSE IF IsWordscapesPair(parsed)
  THEN [normalizer |-> "parseWordscapes",
        result |-> withRawPayload(parseWordscapes(parsed), parsed)]
  ELSE IF IsScrabblePair(parsed)
  THEN [normalizer |-> "parseScrabble",
        result |-> withRawPayload(parseScrabble(parsed), parsed)]
  ELSE [normalizer |-> "none",
        result |-> SchemaInvalid("Model output JSON has an unsupported schema.")]

(* the call of parseModelOutput: what it returns (or that it threw) and *)
(* which normalizer it called                                           *)
callParseModelOutput(text) ==
  LET decoded == decodeModelText(text)
  IN IF ~IsOk(decoded) THEN [normalizer |-> "none", result |-> decoded]
     ELSE routeParsed(decoded.parsed)

parseModelOutput(text) == callParseModelOutput(text).result

----------------------------------------------------------------------------
(* the single-schema parser of lib/boardState.js *)

(* Number.isFinite: the numbers of the model are all finite *)
NumberIsFinite(x) == x.t \in {"num", "frac"}

(* Math.trunc of an integer or of n + 1/2 *)
MathTrunc(x) ==
  IF x.t = "frac" THEN JNum(IF x.n >= 0 THEN x.n ELSE x.n + 1) ELSE x

UnsolvedSlot(length, count) == JObj([length |-> length, count |-> count])

(* the sum the Map of mergeUnsolvedSlots holds for a length *)
RECURSIVE mergedCount(_, _)
mergedCount(slots, length) ==
  IF slots = <<>> THEN 0
  ELSE LET slot == slots[Len(slots)]
           current == mergedCount(SubSeq(slots, 1, Len(slots) - 1), length)
       IN IF Get(slot, "length") = length THEN current + Get(slot, "count").n ELSE current

mergeUnsolvedSlots(slots) ==
  LET lengths == dedupePreserveOrder([i \in 1..Len(slots) |-> Get(slots[i], "length")])
      entries == [i \in 1..Len(lengths) |->
                    UnsolvedSlot(lengths[i], JNum(mergedCount(slots, lengths[i])))]
  IN SortByLength(entries)

RECURSIVE legacyLettersLoop(_, _)
legacyLettersLoop(lettersRaw, i) ==
  IF i = 0 THEN [ok |-> TRUE, letters |-> <<>>]
  ELSE LET before == legacyLettersLoop(lettersRaw, i - 1)
           letter == lettersRaw[i]
           normalized == ToUpperCase(Trim(letter.s))
       IN IF ~IsOk(before) THEN before
          ELSE IF ~IsString(letter) \/ ~IsSingleLetter(normalized)
          THEN SchemaInvalid("letters must contain single A-Z characters.")
          ELSE [ok |-> TRUE, letters |-> Append(before.letters, JStr(normalized))]

RECURSIVE legacySolvedLoop(_, _)
legacySolvedLoop(solvedRaw, i) ==
  IF i = 0 THEN [ok |-> TRUE, solvedWords |-> <<>>]
  ELSE LET before == legacySolvedLoop(solvedRaw, i - 1)
           word == solvedRaw[i]
           normalized == ToUpperCase(Trim(word.s))
       IN IF ~IsOk(before) THEN before
          ELSE IF ~IsString(word) \/ ~IsLetterWord(normalized) \/ Len(normalized) < 2
          THEN SchemaInvalid("solvedWords must be uppercase alphabetic words (length >= 2).")
          ELSE [ok |-> TRUE, solvedWords |-> Append(before.solvedWords, JStr(normalized))]

RECURSIVE unsolvedLoop(_, _)
unsolvedLoop(unsolvedRaw, i) ==
  IF i = 0 THEN [ok |-> TRUE, unsolvedSlots |-> <<>>]
  ELSE LET before == unsolvedLoop(unsolvedRaw, i - 1)
           slot == unsolvedRaw[i]
           rawLength == ToNumber(Get(slot, "length"))
           rawCount == ToNumber(Get(slot, "count"))
           length == MathTrunc(rawLength)
           count == MathTrunc(rawCount)
       IN IF ~IsOk(before) THEN before
          ELSE IF slot.t # "obj" THEN SchemaInvalid("unsolvedSlots entries must be objects.")
          ELSE IF rawLength = TypeError \/ rawCount = TypeError THEN Thrown
          ELSE IF ~NumberIsFinite(rawLength) \/ ~NumberIsFinite(rawCount)
          THEN SchemaInvalid("unsolvedSlots length and count must be numbers.")
          ELSE IF ~IsInteger(length) \/ length.n < 3 \/ length.n > 12
          THEN SchemaInvalid("unsolvedSlots length must be an integer between 3 and 12.")
          ELSE IF ~IsInteger(count) \/ count.n < 1 \/ count.n > 20
          THEN SchemaInvalid("unsolvedSlots count must be an integer between 1 and 20.")
          ELSE [ok |-> TRUE,
                unsolvedSlots |-> Append(before.unsolvedSlots, UnsolvedSlot(length, count))]

(* the loop over dedupedSolved: the first word that holds a suspicious token *)
FirstSuspicious(words) ==
  LET hits == {i \in 1..Len(words) : isSuspiciousWord(words[i].s)}
  IN IF hits = {} THEN Undefined ELSE words[CHOOSE i \in hits : \A j \in hits : i <= j]

(* parseModelOutput of lib/boardState.js after JSON.parse *)
legacyBoard(parsed) ==
  LET keys == DOMAIN parsed.o
      lettersRaw == Get(parsed, "letters")
      solvedRaw == Get(parsed, "solvedWords")
      unsolvedRaw == Get(parsed, "unsolvedSlots")
      letters == legacyLettersLoop(lettersRaw.a, Len(lettersRaw.a))
      solved == legacySolvedLoop(solvedRaw.a, Len(solvedRaw.a))
      unsolved == unsolvedLoop(unsolvedRaw.a, Len(unsolvedRaw.a))
      dedupedLetters == dedupePreserveOrder(letters.letters)
      dedupedSolved == dedupePreserveOrder(solved.solvedWords)
      suspicious == FirstSuspicious(dedupedSolved)
  IN IF parsed.t # "obj" THEN SchemaInvalid("Model output JSON is not an object.")
     ELSE IF keys # {"letters", "solvedWords", "unsolvedSlots"}
     THEN [ok |-> FALSE,
           error |-> [code |-> "MODEL_OUTPUT_SCHEMA_INVALID",
                      message |-> "Model output JSON must contain only letters, solvedWords, unsolvedSlots.",
                      details |-> keys]]
     ELSE IF ~IsArray(lettersRaw) \/ ~IsArray(solvedRaw) \/ ~IsArray(unsolvedRaw)
     THEN SchemaInvalid("Model output JSON fields must be arrays.")
     ELSE IF Len(lettersRaw.a) < 5 \/ Len(lettersRaw.a) > 8
     THEN SchemaInvalid("letters must contain 5 to 8 items.")
     ELSE IF ~IsOk(letters) THEN letters
     ELSE IF ~IsOk(solved) THEN solved
     ELSE IF ~IsOk(unsolved) THEN unsolved
     ELSE IF Len(dedupedLetters) < 5
     THEN SchemaInvalid("letters must contain at least 5 unique characters.")
     ELSE IF suspicious # Undefined
     THEN [ok |-> FALSE,
           error |-> [code |-> "MODEL_OUTPUT_SUSPICIOUS",
                      message |-> "Suspicious word detected: ",
                      word |-> suspicious]]
     ELSE [ok |-> TRUE,
           board |-> JObj([letters |-> JArr(dedupedLetters),
                           solvedWords |-> JArr(dedupedSolved),
                           unsolvedSlots |-> JArr(mergeUnsolvedSlots(unsolved.unsolvedSlots))])]

(* parseModelOutput of lib/boardState.js *)
parseModelOutputLegacy(text) ==
  LET decoded == decodeModelText(text)
  IN IF ~IsOk(decoded) THEN decoded ELSE legacyBoard(decoded.parsed)

----------------------------------------------------------------------------
(* summaries *)

(* Array.prototype.join on an array of strings *)
RECURSIVE Join(_, _)
Join(items, separator) ==
  IF items = <<>> THEN <<>>
  ELSE IF Len(items) = 1 THEN items[1].s
  ELSE items[1].s \o separator \o Join(Tail(items), separator)

(* a loop that skips a null count and keeps adding *)
RECURSIVE totalRemainingPartial(_, _, _)
totalRemainingPartial(missingByLength, i, totalRemaining) ==
  IF i > Len(missingByLength) THEN JNum(totalRemaining)
  ELSE IF Get(missingByLength[i], "count") = JNull
  THEN totalRemainingPartial(missingByLength, i + 1, totalRemaining)
  ELSE totalRemainingPartial(missingByLength, i + 1,
                             totalRemaining + Get(missingByLength[i], "count").n)

(* the loop of buildWordscapesSummary from entry i on, with the sum so far *)
RECURSIVE totalRemaining(_, _, _)
totalRemaining(missingByLength, i, total) ==
  IF i > Len(missingByLength) THEN JNum(total)
  ELSE IF Get(missingByLength[i], "count") = JNull THEN JNull
  ELSE totalRemaining(missingByLength, i + 1, total + Get(missingByLength[i], "count").n)

buildWordscapesSummary(board) ==
  [letters |-> JStr(Join(Get(board, "letters").a, <<" ">>)),
   remainingByLength |-> Get(board, "missingByLength"),
   totalRemaining |-> totalRemaining(Get(board, "missingByLength").a, 1, 0)]

(* the loop of buildScrabbleSummary: the characters pushed for the first i tiles *)
RECURSIVE rackLetters(_, _)
rackLetters(rack, i) ==
  IF i = 0 THEN <<>>
  ELSE LET tile == rack[i]
           before == rackLetters(rack, i - 1)
       IN IF Truthy(tile) /\ Truthy(Get(tile, "isBlank")) THEN Append(before, JStr(<<"_">>))
          ELSE IF Truthy(tile) /\ IsString(Get(tile, "letter"))
          THEN Append(before, Get(tile, "letter"))
          ELSE before

buildScrabbleSummary(board) ==
  LET rack == IF Truthy(Get(board, "rack")) THEN Get(board, "rack").a ELSE <<>>
      letters == rackLetters(rack, Len(rack))
  IN [rack |-> JStr(Join(letters, <<>>)),
      rackCount |-> JNum(Len(letters)),
      blankCount |-> JNum(Cardinality({i \in 1..Len(rack) :
                            Truthy(rack[i]) /\ Truthy(Get(rack[i], "isBlank"))}))]

buildSummary(board) ==
  IF Get(board, "game") = JStr(SCRABBLE_GAME) THEN buildScrabbleSummary(board)
  ELSE buildWordscapesSummary(board)

----------------------------------------------------------------------------
(* Bounds of the explored inputs *)

MaxMissing == 3
MaxWordLists == 2
MaxSlots == 2
MaxSolved == 2
MaxRack == 2

SeqsUpTo(S, n) == UNION {[1..k -> S] : k \in 0..n}

----------------------------------------------------------------------------
(* The decoded objects the model text may carry *)

L(c) == JStr(<<c>>)
ThrowingObject == JObj([toString |-> JNum(1)])

With(obj, key, value) == JObj((key :> value) @@ obj.o)

LettersChoices ==
  { JArr(<<L("A"), L("B"), L("C"), L("D"), L("E")>>),
    JArr(<<JStr(<<" ", "a">>), L("b"), JStr(<<"C", " ">>), L("d"), JStr(<<"\n", "e", "\t">>)>>),
    JArr(<<L("E"), L("D"), L("C"), L("B"), L("A"), L("e")>>),
    JArr(<<L("A"), L("B"), L("A"), L("C"), L("D"), L("E"), L("F"), L("b")>>),
    JArr(<<L("A"), L("B"), L("C"), L("D"), L("A")>>),
    JArr(<<L("A"), L("B"), L("C"), L("D"), L("a"), L("b"), L("c"), L("d")>>),
    JArr(<<L("A"), L("B"), L("C"), L("D")>>),
    JArr(<<L("A"), L("B"), L("C"), L("D"), L("E"), L("F"), L("G"), L("H"), L("I")>>),
    JArr(<<L("A"), L("B"), L("C"), L("D"), JNum(5)>>),
    JArr(<<L("A"), L("B"), L("C"), L("D"), JStr(<<"E", "F">>)>>),
    JArr(<<L("A"), L("B"), L("C"), L("D"), L("5")>>),
    JArr(<<L("A"), L("B"), L("C"), L("D"), JStr(<<>>)>>),
    JStr(<<"A", "B", "C", "D", "E">>),
    JNull }

BaseLetters == JArr(<<L("A"), L("B"), L("C"), L("D"), L("E")>>)

MissingEntryChoices ==
  { MissingEntry(4, JNum(2)), MissingEntry(4, JNull), MissingEntry(4, JNum(20)),
    MissingEntry(5, JNum(1)), MissingEntry(3, JNum(0)),
    JObj([length |-> JStr(<<"4">>), count |-> JStr(<<" ", "1", "2">>)]),
    MissingEntry(2, JNum(1)), MissingEntry(4, JNum(21)),
    JObj([length |-> ThrowingObject, count |-> JNum(1)]) }

MissingChoices ==
  { JArr(s) : s \in SeqsUpTo(MissingEntryChoices, MaxMissing) }
    \cup { JArr(<<e>>) : e \in
             { MissingEntry(13, JNum(1)), JObj([length |-> JFrac(4), count |-> JNum(1)]),
               JObj([length |-> JNum(4), count |-> JFrac(1)]), JObj([length |-> JNum(4)]),
               JObj([count |-> JNum(4)]), MissingEntry(4, JNum(0 - 1)),
               JObj([length |-> JNum(4), count |-> ThrowingObject]),
               JObj([length |-> JNum(4), count |-> JArr(<<JNum(7)>>)]),
               JObj([length |-> JArr(<<JArr(<<ThrowingObject>>)>>), count |-> JNull]),
               JObj([length |-> JNum(4), count |-> JTrue]),
               JObj([length |-> JNull, count |-> JNull]),
               JStr(<<"4">>), JNull, JArr(<<>>), JNum(4) } }
    \cup { JObj([length |-> JNum(4), count |-> JNum(2)]), JStr(<<"4">>), JNull, JNum(0) }

BaseMissing == JArr(<<MissingEntry(4, JNum(2))>>)

CATS == <<"C", "A", "T", "S">>
DOGS == <<"D", "O", "G", "S">>

SlotChoices ==
  { JStr(CATS), JStr(DOGS), JStr(<<" ", "c", "a", "t", "s", "\n">>),
    JStr(<<"F", "R", "E", "E">>), JStr(<<"F", "R", "E", "E", "Z">>),
    JStr(<<"C", "A", "T", "5">>), JStr(<<"D", "O", "G">>), JNull, JNum(7) }

RawWordList(length, slots) == JObj([length |-> length, slots |-> slots])

WordListEntryChoices ==
  { RawWordList(JNum(4), JArr(<<JStr(CATS), JStr(DOGS), JStr(<<"F", "R", "E", "E", "Z">>)>>)),
    RawWordList(JNum(4), JArr(<<JStr(<<"d", "o", "g", "s", " ">>), JNull, JStr(CATS)>>)),
    RawWordList(JNum(3), JArr(<<JStr(<<"C", "A", "T">>), JStr(<<"D", "O", "G">>)>>)),
    RawWordList(JNum(4), JArr(<<JStr(<<"F", "R", "E", "E">>), JNum(4), JStr(<<"D", "O", "G">>)>>)),
    RawWordList(JStr(<<"5">>),
      JArr(<<JStr(<<"C", "O", "I", "N", "S">>), JStr(<<"A", "B", "C", "D", "E">>),
             JStr(<<"s", "h", "i", "n", "t">>), JStr(<<"A", "B", "C", "D", "E">>)>>)),
    RawWordList(JNum(13), JArr(<<JStr(CATS)>>)),
    RawWordList(JNum(4), JStr(CATS)),
    JStr(CATS),
    RawWordList(ThrowingObject, JArr(<<JStr(CATS)>>)) }

WordListsChoices ==
  { JArr(s) : s \in SeqsUpTo(WordListEntryChoices, MaxWordLists) }
    \cup { JArr(<<RawWordList(JNum(4), JArr(s))>>) : s \in SeqsUpTo(SlotChoices, MaxSlots) }
    \cup { Undefined, JNull, JStr(CATS), JNum(4), RawWordList(JNum(4), JArr(<<JStr(CATS)>>)) }

RawSolved(length, words) == JObj([length |-> length, words |-> words])

SolvedEntryChoices ==
  { RawSolved(JNum(4), JArr(<<JStr(CATS), JStr(CATS), JStr(DOGS)>>)),
    RawSolved(JNum(4), JArr(<<JStr(<<" ", "d", "o", "g", "s">>), JStr(<<"F", "R", "E", "E">>),
                              JNum(5), JStr(<<"C", "A", "T">>)>>)),
    RawSolved(JNum(3), JArr(<<JStr(<<"C", "A", "T">>)>>)),
    RawSolved(JNum(4), JArr(<<>>)),
    RawSolved(JNum(2), JArr(<<JStr(<<"A", "B">>)>>)),
    RawSolved(JNum(4), JNull),
    JNum(4),
    RawSolved(ThrowingObject, JArr(<<>>)) }

SolvedChoices ==
  { JArr(s) : s \in SeqsUpTo(SolvedEntryChoices, MaxSolved) }
    \cup { Undefined, JNull, JStr(CATS), RawSolved(JNum(4), JArr(<<JStr(CATS)>>)) }

NotesChoices ==
  { Undefined, JArr(<<>>), JStr(<<"note">>),
    JArr(<<JStr(<<"level", " ", "12">>), JNum(5), JNull, JStr(<<"dark", " ", "theme">>)>>) }

(* an object literal of the given fields, undefined ones left out *)
ObjectOf(fields) ==
  JObj([key \in {k \in DOMAIN fields : fields[k] # Undefined} |-> fields[key]])

WordscapesObject(letters, missingByLength, wordLists, solvedWordsByLength, notes) ==
  ObjectOf([schema |-> JStr(WORDSCAPES_SCHEMA), game |-> JStr(WORDSCAPES_GAME),
            letters |-> letters, missingByLength |-> missingByLength,
            wordLists |-> wordLists, solvedWordsByLength |-> solvedWordsByLength,
            notes |-> notes])

BaseWordLists == JArr(<<RawWordList(JNum(4), JArr(<<JStr(CATS), JNull>>))>>)
BaseSolved == JArr(<<RawSolved(JNum(3), JArr(<<JStr(<<"C", "A", "T">>)>>))>>)
MixedNotes == JArr(<<JStr(<<"level", " ", "12">>), JNum(5), JNull, JStr(<<"dark", " ", "theme">>)>>)

WordscapesObjects ==
  { WordscapesObject(l, BaseMissing, w, Undefined, Undefined) :
      l \in LettersChoices \cup {Undefined}, w \in {Undefined, BaseWordLists} }
  \cup { WordscapesObject(BaseLetters, m, Undefined, s, Undefined) :
      m \in MissingChoices \cup {Undefined}, s \in {Undefined, BaseSolved} }
  \cup { WordscapesObject(BaseLetters, BaseMissing, w, s, n) :
      w \in WordListsChoices, s \in {Undefined, BaseSolved, JNull, JArr(<<JNum(4)>>)},
      n \in {Undefined, MixedNotes} }
  \cup { WordscapesObject(BaseLetters, BaseMissing, w, s, n) :
      w \in {Undefined, JNull, JArr(<<>>), JArr(<<JStr(CATS)>>), BaseWordLists},
      s \in SolvedChoices, n \in NotesChoices }
  \cup { WordscapesObject(l, m, w, s, n) :
      l \in {BaseLetters, JNull}, m \in {BaseMissing, JArr(<<JNull>>)},
      w \in {JNum(4), JArr(<<RawWordList(ThrowingObject, JArr(<<>>))>>)},
      s \in {JStr(CATS), JArr(<<RawSolved(ThrowingObject, JArr(<<>>))>>)},
      n \in {JNum(1), JObj(NoProps)} }

RawTile(letter, isBlank) == ObjectOf([letter |-> letter, isBlank |-> isBlank])

RackChoices ==
  { JArr(<<>>),
    JArr(<<RawTile(L("A"), JFalse), RawTile(L("Q"), JTrue), RawTile(JStr(<<" ", "z">>), Undefined)>>),
    JArr(<<RawTile(JNull, JTrue), RawTile(L("B"), JStr(<<"true">>)), RawTile(L("C"), JNum(1))>>),
    JArr(<<RawTile(JStr(<<"Q", "U">>), JFalse), RawTile(Undefined, Undefined)>>),
    JArr([i \in 1..7 |-> RawTile(L("E"), JFalse)]),
    JArr([i \in 1..8 |-> RawTile(L("E"), JFalse)]),
    JArr(<<RawTile(JNum(5), JFalse)>>),
    JArr(<<RawTile(L("A"), JFalse), JStr(<<"B">>)>>),
    JStr(<<"A", "B">>),
    JNull }

BaseRack == JArr(<<RawTile(L("A"), JFalse), RawTile(L("Q"), JTrue)>>)

EmptyRow == [c \in 1..15 |-> JNull]
EmptyTiles == [r \in 1..15 |-> JArr(EmptyRow)]
RawBoard(size, tiles) == ObjectOf([size |-> size, tiles |-> tiles])

BoardChoices ==
  { RawBoard(JNum(15), JArr(EmptyTiles)),
    RawBoard(JStr(<<"1", "5">>),
             JArr([EmptyTiles EXCEPT ![8] =
                     JArr([EmptyRow EXCEPT ![7] = JStr(<<" ", "h">>), ![8] = L("I")])])),
    RawBoard(JNum(15), JArr(SubSeq(EmptyTiles, 1, 14))),
    RawBoard(JNum(15), JArr(Append(EmptyTiles, JArr(EmptyRow)))),
    RawBoard(JNum(15), JArr([EmptyTiles EXCEPT ![3] = JArr(SubSeq(EmptyRow, 1, 14))])),
    RawBoard(JNum(15), JArr([EmptyTiles EXCEPT ![3] = JNull])),
    RawBoard(JNum(15), JArr([EmptyTiles EXCEPT ![15] = JArr([EmptyRow EXCEPT ![15] = JNum(1)])])),
    RawBoard(JNum(15),
             JArr([EmptyTiles EXCEPT ![1] = JArr([EmptyRow EXCEPT ![1] = JStr(<<"A", "B">>)])])),
    RawBoard(JNum(14), JArr(SubSeq(EmptyTiles, 1, 14))),
    RawBoard(Undefined, JArr(EmptyTiles)),
    RawBoard(ThrowingObject, JArr(EmptyTiles)),
    RawBoard(JNum(15), Undefined),
    JArr(EmptyTiles),
    JNull }

BaseBoard == RawBoard(JNum(15), JArr(EmptyTiles))

ScrabbleObject(rack, board, notes) ==
  ObjectOf([schema |-> JStr(SCRABBLE_SCHEMA), game |-> JStr(SCRABBLE_GAME),
            rack |-> rack, board |-> board, notes |-> notes])

ScrabbleObjects ==
  { ScrabbleObject(r, BaseBoard, n) : r \in RackChoices \cup {Undefined}, n \in NotesChoices }
  \cup { ScrabbleObject(r, b, Undefined) : r \in {BaseRack, JNull}, b \in BoardChoices \cup {Undefined} }

RawPointsTile(letter, points, isBlank) ==
  ObjectOf([letter |-> letter, points |-> points, isBlank |-> isBlank])

(* rack tiles as either variant of the Scrabble normalizer may receive them *)
TileChoices ==
  { RawPointsTile(L("A"), JNum(3), JFalse),
    RawPointsTile(JNull, JNum(0), JTrue),
    RawPointsTile(L("Q"), JNum(0), JTrue),
    RawPointsTile(JNull, JNum(5), JTrue),
    RawPointsTile(JStr(<<" ", "z">>), JStr(<<"5">>), Undefined),
    RawPointsTile(L("B"), JNum(11), JFalse),
    RawPointsTile(L("B"), JNum(-1), JFalse),
    RawPointsTile(L("B"), JFrac(2), JFalse),
    RawPointsTile(L("B"), JNull, JFalse),
    RawPointsTile(L("B"), Undefined, JFalse),
    RawPointsTile(L("B"), ThrowingObject, JFalse),
    RawPointsTile(JNull, JNum(1), JFalse),
    RawPointsTile(JStr(<<"Q", "U">>), JNum(1), JFalse),
    RawPointsTile(JStr(<<"Q", "U">>), ThrowingObject, JFalse),
    RawPointsTile(JNum(5), JNum(1), JFalse),
    RawPointsTile(L("C"), JNum(0), JStr(<<"true">>)),
    RawPointsTile(JNull, JNum(0), JNum(1)),
    RawPointsTile(Undefined, JNum(0), Undefined),
    RawPointsTile(L("Q"), Undefined, JTrue),
    RawPointsTile(JNull, Undefined, JTrue),
    RawPointsTile(L("D"), JNum(10), Undefined),
    JStr(<<"E">>) }

BaseRackWithPoints ==
  JArr(<<RawPointsTile(L("A"), JNum(3), JFalse), RawPointsTile(JNull, JNum(0), JTrue)>>)

(* the Scrabble objects handed to both variants of the normalizer *)
VariantObjects ==
  { ScrabbleObject(JArr(rack), BaseBoard, Undefined) : rack \in SeqsUpTo(TileChoices, MaxRack) }
  \cup { ScrabbleObject(BaseRackWithPoints, b, MixedNotes) : b \in BoardChoices \cup {Undefined} }
  \cup { ScrabbleObject(r, BaseBoard, Undefined) :
           r \in { JArr([i \in 1..7 |-> RawPointsTile(L("E"), JNum(3), JFalse)]),
                   JArr([i \in 1..8 |-> RawPointsTile(L("E"), JNum(3), JFalse)]),
                   JNull, Undefined } }
  \cup { With(ScrabbleObject(BaseRackWithPoints, BaseBoard, Undefined), "points", JNum(1)) }

BaseWordscapes ==
  WordscapesObject(BaseLetters, BaseMissing, BaseWordLists, BaseSolved, MixedNotes)
BaseScrabble == ScrabbleObject(BaseRack, BaseBoard, MixedNotes)

(* the discriminant values tried on otherwise valid bodies *)
DiscriminantChoices ==
  { JStr(WORDSCAPES_SCHEMA), JStr(WORDSCAPES_GAME), JStr(SCRABBLE_SCHEMA), JStr(SCRABBLE_GAME),
    JStr(Atom("WORDVINDER_BOARD_EXTRACT_V3")), JStr(Atom("wordscapes")),
    JStr(<<"SCRABBLE", " ">>), JStr(<<>>), JNum(4), JNull, JArr(<<JStr(WORDSCAPES_SCHEMA)>>),
    Undefined }

Rediscriminated(obj, schema, game) ==
  ObjectOf([key \in DOMAIN obj.o \cup {"schema", "game"} |->
              IF key = "schema" THEN schema ELSE IF key = "game" THEN game ELSE obj.o[key]])

RouterObjects ==
  { Rediscriminated(obj, schema, game) :
      obj \in {BaseWordscapes, BaseScrabble},
      schema \in DiscriminantChoices, game \in DiscriminantChoices }

ExtraKeys == {"cheatCode", "toString", "__proto__", "rack", "letters", "points", "Notes"}

ExtraKeyObjects ==
  { With(obj, key, value) :
      obj \in { BaseWordscapes, BaseScrabble,
                WordscapesObject(BaseLetters, BaseMissing, Undefined, Undefined, Undefined),
                WordscapesObject(JNull, BaseMissing, Undefined, Undefined, Undefined),
                WordscapesObject(BaseLetters, Undefined, Undefined, Undefined, Undefined),
                ScrabbleObject(BaseRack, JNull, Undefined),
                ScrabbleObject(Undefined, BaseBoard, Undefined) },
      key \in ExtraKeys, value \in {JNull, JArr(<<>>)} }

DecodedObjects == WordscapesObjects \cup ScrabbleObjects \cup RouterObjects \cup ExtraKeyObjects

----------------------------------------------------------------------------
(* The model text handed to parseModelOutput *)

Chars(s) == [i \in 1..Len(s) |-> Ch(s[i])]

Fence == Chars(<<Backquote, Backquote, Backquote>>)

TextChoices ==
  LET docs == {<<Doc(BaseWordscapes)>>, <<Doc(BaseScrabble)>>, <<Doc(JArr(<<>>))>>,
               <<Doc(With(BaseWordscapes, "cheatCode", JNull))>>,
               Chars(<<"{", " ", "}">>), Chars(<<"{", "x", "}">>)}
      tags == {<<>>, Chars(<<"j", "s", "o", "n">>), Chars(<<"J", "s", "O", "N">>),
               Chars(<<"j", "s">>)}
      gaps == {<<>>, Chars(<<"\n">>), Chars(<<" ", "\n">>)}
  IN { Chars(<<" ">>) \o d \o Chars(<<"\n">>) : d \in docs }
     \cup { g \o Fence \o t \o g \o d \o g \o Fence \o g : d \in docs, t \in tags, g \in gaps }
     \cup { Fence \o t \o d : d \in docs, t \in tags }
     \cup { Chars(<<"x">>) \o d : d \in docs }
     \cup { d \o Chars(<<"x">>) : d \in docs }
     \cup { d \o d : d \in docs }
     \cup { <<>>, Fence \o Fence, Fence, Chars(<<"{">>), Chars(<<"}">>) }

(* texts that start with "{" and end with "}" once trimmed *)
FenceBodies ==
  { <<Doc(BaseWordscapes)>>, <<Doc(BaseScrabble)>>,
    <<Doc(With(BaseWordscapes, "cheatCode", JNull))>>,
    <<Doc(BaseWordscapes), Doc(BaseScrabble)>>,
    Chars(<<"{", " ", "}">>), Chars(<<"{", "x", "}">>),
    Chars(<<"{">>) \o Fence \o Chars(<<"}">>),
    Chars(<<"{", "j", "s", "o", "n", "}">>) }

FenceTags ==
  { <<>>, Chars(<<"j", "s", "o", "n">>), Chars(<<"J", "s", "O", "N">>),
    Chars(<<"J", "S", "O", "N">>) }

FenceGaps == { <<>>, Chars(<<"\n">>), Chars(<<" ", "\t">>) }

Fenced(body, tag, before, inner, after, behind) ==
  before \o Fence \o tag \o inner \o body \o after \o Fence \o behind

FencedTexts ==
  { Fenced(body, tag, g[1], g[2], g[3], g[4]) :
      body \in FenceBodies, tag \in FenceTags, g \in [1..4 -> FenceGaps] }

(* the argument of parseModelOutput: a string of text atoms, or another value *)
StringText(text) == [isString |-> TRUE, text |-> text, value |-> Undefined]
NonString(value) == [isString |-> FALSE, text |-> <<>>, value |-> value]

ModelTexts ==
  { StringText(<<Doc(obj)>>) : obj \in DecodedObjects }
    \cup { StringText(text) : text \in TextChoices \cup FencedTexts }
    \cup { NonString(value) :
             value \in {Undefined, JNull, JNum(5), JTrue, JArr(<<>>), BaseWordscapes} }

VariantTexts == { StringText(<<Doc(obj)>>) : obj \in VariantObjects }

----------------------------------------------------------------------------
(* The state machine: a caller hands a model text to parseModelOutput, and *)
(* may feed the serialised board of a success back as fresh model text.    *)

NoResult == [pending |-> TRUE]

Init ==
  /\ modelText \in ModelTexts
  /\ result = NoResult
  /\ normalizer = "none"
  /\ firstBoard = Undefined
  /\ pc = "ready"
  /\ summary = NoResult
  /\ lookup = NoResult
  /\ pointsTable = SCRABBLE_POINTS

ParseModelOutput ==
  /\ pc = "ready"
  /\ result' = parseModelOutput(modelText)
  /\ normalizer' = callParseModelOutput(modelText).normalizer
  /\ pc' = "parsed"
  /\ UNCHANGED <<modelText, firstBoard, summary, lookup, pointsTable>>

(* the caller's step after a success: the summary of the board *)
BuildSummary ==
  /\ pc = "parsed"
  /\ IsOk(result)
  /\ summary' = buildSummary(result.board)
  /\ pc' = "summarized"
  /\ UNCHANGED <<modelText, result, normalizer, firstBoard, lookup, pointsTable>>

Renormalize ==
  /\ pc = "parsed"
  /\ IsOk(result)
  /\ firstBoard = Undefined
  /\ modelText' = StringText(JsonStringify(result.board))
  /\ firstBoard' = result.board
  /\ result' = NoResult
  /\ normalizer' = "none"
  /\ pc' = "ready"
  /\ UNCHANGED <<summary, lookup, pointsTable>>

Next == ParseModelOutput \/ Renormalize \/ BuildSummary

(* the objects handed to the single-schema parser *)
LegacyObject(letters, solved, unsolved) ==
  ObjectOf([letters |-> letters, solvedWords |-> solved, unsolvedSlots |-> unsolved])

FREEBIE == <<"F", "R", "E", "E", "B", "I", "E">>

LegacyLettersChoices ==
  { BaseLetters,
    JArr(<<JStr(<<" ", "a">>), L("b"), JStr(<<"C", " ">>), L("d"), JStr(<<"\n", "e", "\t">>)>>),
    JArr(<<L("A"), L("B"), L("C"), L("D")>>),
    JArr([i \in 1..9 |-> L(UpperCase[i])]),
    JArr(<<L("A"), L("B"), L("C"), L("D"), L("a")>>),
    JArr(<<L("A"), L("B"), L("C"), L("D"), L("a"), L("E")>>),
    JArr(<<L("A"), L("B"), L("C"), L("D"), JNum(5)>>),
    JArr(<<L("A"), L("B"), L("C"), L("D"), JStr(<<"E", "F">>)>>),
    JStr(<<"A", "B", "C", "D", "E">>),
    JNull }

LegacyWordChoices ==
  { JStr(<<"C", "A", "B">>), JStr(FREEBIE), JStr(<<" ", "f", "r", "e", "e", "b", "i", "e">>),
    JStr(<<"H", "I", "N", "T">>), L("A"), JStr(<<"C", "4", "T">>), JNum(4) }

LegacySolvedChoices ==
  { JArr(words) : words \in SeqsUpTo(LegacyWordChoices, MaxSolved) } \cup {JStr(FREEBIE)}

LegacySlotChoices ==
  { UnsolvedSlot(JNum(4), JNum(2)), UnsolvedSlot(JNum(4), JNum(20)),
    UnsolvedSlot(JStr(<<"5">>), JStr(<<" ", "1">>)), UnsolvedSlot(JFrac(3), JFrac(1)),
    UnsolvedSlot(JNum(2), JNum(1)), UnsolvedSlot(JNum(13), JNum(1)),
    UnsolvedSlot(JNum(4), JNum(0)), UnsolvedSlot(JNum(4), JNum(21)),
    UnsolvedSlot(JFrac(2), JNum(1)), UnsolvedSlot(JNum(4), JFrac(0)),
    UnsolvedSlot(ThrowingObject, JNum(1)), UnsolvedSlot(JNum(4), ThrowingObject),
    JObj([length |-> JNum(4)]), UnsolvedSlot(JNum(4), JStr(<<"x">>)),
    JNull, JArr(<<JNum(4), JNum(1)>>) }

LegacyUnsolvedChoices ==
  { JArr(<<>>), JNull,
    JArr(<<UnsolvedSlot(JNum(5), JNum(1)), UnsolvedSlot(JNum(4), JNum(2)),
           UnsolvedSlot(JNum(5), JNum(20))>>) }
  \cup { JArr(<<slot>>) : slot \in LegacySlotChoices }
  \cup { JArr(<<UnsolvedSlot(JNum(4), JNum(2)), slot>>) : slot \in LegacySlotChoices }

LegacyObjects ==
  { LegacyObject(l, s, u) :
      l \in LegacyLettersChoices, s \in LegacySolvedChoices, u \in LegacyUnsolvedChoices }
  \cup { LegacyObject(BaseLetters, s, u) :
           s \in {Undefined, JArr(<<JStr(FREEBIE)>>)},
           u \in {Undefined, JArr(<<>>), JArr(<<UnsolvedSlot(ThrowingObject, JNum(1))>>)} }
  \cup { With(LegacyObject(BaseLetters, JArr(<<JStr(FREEBIE)>>), JArr(<<>>)), key, JNull) :
           key \in {"notes", "schema"} }

LegacyTexts ==
  { StringText(<<Doc(obj)>>) : obj \in LegacyObjects }
  \cup { StringText(text) : text \in
           { Fence \o Chars(<<"j", "s", "o", "n", "\n">>)
               \o <<Doc(LegacyObject(BaseLetters, JArr(<<JStr(FREEBIE)>>), JArr(<<>>)))>> \o Fence,
             <<Doc(JArr(<<JStr(FREEBIE)>>))>>,
             Chars(<<"F", "R", "E", "E">>),
             <<Doc(LegacyObject(BaseLetters, JArr(<<JStr(FREEBIE)>>), JArr(<<>>)))>>
               \o Chars(<<"x">>) } }
  \cup { NonString(JNull), NonString(BaseWordscapes) }

(* the call of the single-schema parser *)
ParseModelOutputLegacy ==
  /\ pc = "ready"
  /\ result' = parseModelOutputLegacy(modelText)
  /\ normalizer' = "legacy"
  /\ pc' = "parsed"
  /\ UNCHANGED <<modelText, firstBoard, summary, lookup, pointsTable>>

InitLegacy ==
  /\ modelText \in LegacyTexts
  /\ result = NoResult
  /\ normalizer = "none"
  /\ firstBoard = Undefined
  /\ pc = "ready"
  /\ summary = NoResult
  /\ lookup = NoResult
  /\ pointsTable = SCRABBLE_POINTS

NextLegacy == ParseModelOutputLegacy

(* the single-schema parser on its inputs *)
LegacySpec == InitLegacy /\ [][NextLegacy]_vars

(* the letters and the blank flags handed to getScrabblePoints *)
LookupLetters ==
  { L(UpperCase[i]) : i \in 1..26 }
  \cup { L("a"), L("q"), L("z"), JStr(<<" ", "z">>), JStr(<<"e", "\n">>),
         JStr(<<" ", "Q", "\t">>), JStr(<<"Q", "U">>), JStr(<<"A", " ", "B">>), JStr(<<>>),
         JStr(<<" ">>), L("1"), L("_"), JStr(Atom("toString")), JNum(5), JNum(0), JNull,
         Undefined, JTrue, JArr(<<L("A")>>), JObj(NoProps) }

LookupBlanks ==
  { JTrue, JFalse, Undefined, JNull, JNum(0), JNum(1), NaN, JStr(<<>>),
    JStr(<<"true">>), JStr(<<"false">>), JArr(<<>>), JObj(NoProps) }

(* a call of getScrabblePoints *)
GetScrabblePoints ==
  /\ pc = "ready"
  /\ \E letter \in LookupLetters, isBlank \in LookupBlanks :
       lookup' = [letter |-> letter, isBlank |-> isBlank,
                  points |-> getScrabblePoints(letter, isBlank)]
  /\ UNCHANGED <<modelText, result, normalizer, firstBoard, pc, summary, pointsTable>>

InitPoints ==
  /\ modelText = NonString(Undefined)
  /\ result = NoResult
  /\ normalizer = "none"
  /\ firstBoard = Undefined
  /\ pc = "ready"
  /\ summary = NoResult
  /\ lookup = NoResult
  /\ pointsTable = SCRABBLE_POINTS

NextPoints == GetScrabblePoints

(* any sequence of calls of getScrabblePoints *)
PointsSpec == InitPoints /\ [][NextPoints]_vars

(* the same decoded object normalized by the variant whose tiles carry points *)
ParseScrabbleWithPoints ==
  /\ pc = "ready"
  /\ LET decoded == decodeModelText(modelText)
     IN /\ IsOk(decoded)
        /\ isPlainObject(decoded.parsed)
        /\ result' = parseScrabbleWithPoints(decoded.parsed)
  /\ normalizer' = "parseScrabbleWithPoints"
  /\ pc' = "parsed"
  /\ UNCHANGED <<modelText, firstBoard, summary, lookup, pointsTable>>

InitVariants ==
  /\ modelText \in VariantTexts
  /\ result = NoResult
  /\ normalizer = "none"
  /\ firstBoard = Undefined
  /\ pc = "ready"
  /\ summary = NoResult
  /\ lookup = NoResult
  /\ pointsTable = SCRABBLE_POINTS

NextVariants == ParseModelOutput \/ ParseScrabbleWithPoints \/ BuildSummary

(* both variants of the Scrabble normalizer on the same inputs *)
VariantsSpec == InitVariants /\ [][NextVariants]_vars

Spec == Init /\ [][Next]_vars

----------------------------------------------------------------------------
(* Properties *)

ErrorCodes ==
  {"MODEL_OUTPUT_NOT_JSON", "MODEL_OUTPUT_SCHEMA_INVALID", "MODEL_OUTPUT_SUSPICIOUS"}

IsSuccess(r) ==
  /\ {"ok", "board"} \subseteq DOMAIN r
  /\ "error" \notin DOMAIN r
  /\ r.ok
  /\ r.board.t = "obj"

IsFailure(r) ==
  /\ {"ok", "error"} \subseteq DOMAIN r
  /\ "board" \notin DOMAIN r
  /\ ~r.ok
  /\ r.error.code \in ErrorCodes

FailsWith(r, code) == IsFailure(r) /\ r.error.code = code

(* the object JSON.parse produced in the current call, if the call got there *)
Decoded == decodeModelText(modelText)
HasDecodedObject == IsOk(Decoded) /\ isPlainObject(Decoded.parsed)
InputObject == Decoded.parsed

(* C1: for every input value, string or not, parseModelOutput returns       *)
(* without throwing, and what it returns is either a success carrying a     *)
(* board or a failure carrying an error whose code is one of the three      *)
(* codes of the taxonomy, never both.                                       *)
C1_ReturnsStructuredResult ==
  pc = "parsed" => ~IsThrown(result) /\ (IsSuccess(result) \/ IsFailure(result))

(* C2: the router enters the Wordscapes normalizer exactly for the pair     *)
(* (WORDVINDER_BOARD_EXTRACT_V4, WORDSCAPES) and the Scrabble normalizer    *)
(* exactly for (WORDVINDER_SCRABBLE_EXTRACT_V1, SCRABBLE); every other      *)
(* pair, a missing or a non-string schema or game is rejected with          *)
(* MODEL_OUTPUT_SCHEMA_INVALID, and a successful board carries the pair of  *)
(* the input.                                                               *)
C2_RouterExactPairs ==
  pc = "parsed" /\ HasDecodedObject =>
    LET schema == Get(InputObject, "schema")
        game == Get(InputObject, "game")
        wordscapes == schema.t = "str" /\ schema.s = <<"WORDVINDER_BOARD_EXTRACT_V4">>
                        /\ game.t = "str" /\ game.s = <<"WORDSCAPES">>
        scrabble == schema.t = "str" /\ schema.s = <<"WORDVINDER_SCRABBLE_EXTRACT_V1">>
                      /\ game.t = "str" /\ game.s = <<"SCRABBLE">>
    IN /\ normalizer = "parseWordscapes" <=> wordscapes
       /\ normalizer = "parseScrabble" <=> scrabble
       /\ ~wordscapes /\ ~scrabble => FailsWith(result, "MODEL_OUTPUT_SCHEMA_INVALID")
       /\ IsOk(result) => /\ Get(result.board, "schema") = schema
                          /\ Get(result.board, "game") = game

(* a crossed pair was rejected without entering a normalizer *)
C2_Witness ==
  /\ pc = "parsed"
  /\ HasDecodedObject
  /\ Get(InputObject, "schema") = JStr(WORDSCAPES_SCHEMA)
  /\ Get(InputObject, "game") = JStr(SCRABBLE_GAME)
  /\ normalizer = "none"
  /\ FailsWith(result, "MODEL_OUTPUT_SCHEMA_INVALID")

WordscapesAllowList ==
  {"schema", "game", "letters", "missingByLength", "wordLists", "solvedWordsByLength", "notes"}
ScrabbleAllowList == {"schema", "game", "rack", "board", "notes"}

Without(obj, key) == JObj([k \in DOMAIN obj.o \ {key} |-> obj.o[k]])

(* C3: a decoded object with a top-level key outside the allow-list of its  *)
(* game is rejected with MODEL_OUTPUT_SCHEMA_INVALID whatever its other     *)
(* fields hold.                                                             *)
C3_UnknownKeyRejected ==
  pc = "parsed" /\ HasDecodedObject =>
    LET game == Get(InputObject, "game")
        keys == DOMAIN InputObject.o
    IN /\ game = JStr(<<"WORDSCAPES">>) /\ ~(keys \subseteq WordscapesAllowList)
            => FailsWith(result, "MODEL_OUTPUT_SCHEMA_INVALID")
       /\ game = JStr(<<"SCRABBLE">>) /\ ~(keys \subseteq ScrabbleAllowList)
            => FailsWith(result, "MODEL_OUTPUT_SCHEMA_INVALID")

(* an object that is accepted without its cheatCode key was rejected with it *)
C3_Witness ==
  /\ pc = "parsed"
  /\ HasDecodedObject
  /\ "cheatCode" \in DOMAIN InputObject.o
  /\ normalizer = "parseWordscapes"
  /\ IsOk(parseWordscapes(Without(InputObject, "cheatCode")))
  /\ FailsWith(result, "MODEL_OUTPUT_SCHEMA_INVALID")

(* the current call went through the Wordscapes normalizer and succeeded *)
WordscapesAccepted == pc = "parsed" /\ normalizer = "parseWordscapes" /\ IsOk(result)

Range(seq) == {seq[i] : i \in 1..Len(seq)}

FirstIndex(seq, x) == CHOOSE k \in 1..Len(seq) : seq[k] = x /\ \A m \in 1..(k - 1) : seq[m] # x

(* out holds every item of in once, in the order the items first appear in in *)
IsFirstSeenDedup(out, in) ==
  /\ \A i, j \in 1..Len(out) : i # j => out[i] # out[j]
  /\ Range(out) = Range(in)
  /\ \A i, j \in 1..Len(out) : i < j => FirstIndex(in, out[i]) < FirstIndex(in, out[j])

(* C4: re-normalizing the serialised output board of a valid Wordscapes     *)
(* input succeeds and yields the same board again, also when missingByLength*)
(* entries were merged and when diagnostic notes were appended.             *)
C4_RenormalizeIdempotent ==
  pc = "parsed" /\ firstBoard # Undefined
      /\ Get(firstBoard, "game") = JStr(<<"WORDSCAPES">>)
    => IsOk(result) /\ result.board = firstBoard

(* C5: an accepted Wordscapes board has 5 to 8 letters, each one character  *)
(* A-Z, without duplicates, in the first-seen order of the trimmed and      *)
(* upper-cased input; letters with fewer than 5 unique values are rejected  *)
(* with MODEL_OUTPUT_SCHEMA_INVALID.                                        *)
C5_LettersUniqueInRange ==
  pc = "parsed" /\ normalizer = "parseWordscapes" =>
    LET raw == Get(InputObject, "letters")
        upper == [k \in 1..Len(raw.a) |-> JStr(ToUpperCase(Trim(raw.a[k].s)))]
        out == Get(result.board, "letters").a
    IN /\ IsOk(result) =>
            /\ Len(out) \in 5..8
            /\ \A i \in 1..Len(out) :
                 out[i].t = "str" /\ Len(out[i].s) = 1 /\ out[i].s[1] \in Letters
            /\ IsFirstSeenDedup(out, upper)
       /\ raw.t = "arr" /\ (\A k \in 1..Len(raw.a) : raw.a[k].t = "str")
            /\ Cardinality(Range(upper)) < 5
            => FailsWith(result, "MODEL_OUTPUT_SCHEMA_INVALID")

(* eight raw letters with repeats in mixed case were accepted as fewer letters *)
C5_Witness ==
  /\ WordscapesAccepted
  /\ Len(Get(InputObject, "letters").a) = 8
  /\ Len(Get(result.board, "letters").a) = 6
  /\ Get(InputObject, "letters").a[8] = JStr(<<"b">>)

RECURSIVE SumOfCounts(_, _)
SumOfCounts(raw, indices) ==
  IF indices = {} THEN 0
  ELSE LET k == CHOOSE k \in indices : TRUE
       IN ToNumber(Get(raw[k], "count")).n + SumOfCounts(raw, indices \ {k})

(* the raw missingByLength entries whose length is n *)
RawOfLength(raw, n) == {k \in 1..Len(raw) : ToNumber(Get(raw[k], "length")) = JNum(n)}

(* C6: the output missingByLength has one entry per raw length, ascending;  *)
(* its count is null if any raw entry of that length has a null count, in   *)
(* any position, and the sum of the raw counts of that length otherwise.    *)
C6_MergeNullPoisoningSum ==
  WordscapesAccepted =>
    LET raw == Get(InputObject, "missingByLength").a
        out == Get(result.board, "missingByLength").a
    IN /\ \A i, j \in 1..Len(out) : i < j => out[i].o.length.n < out[j].o.length.n
       /\ \A k \in 1..Len(raw) : \E i \in 1..Len(out) : k \in RawOfLength(raw, out[i].o.length.n)
       /\ \A i \in 1..Len(out) :
            LET same == RawOfLength(raw, out[i].o.length.n)
            IN /\ same # {}
               /\ out[i].o.count =
                    IF \E k \in same : Get(raw[k], "count") = JNull THEN JNull
                    ELSE JNum(SumOfCounts(raw, same))

(* three raw entries of one length, the unknown count in the middle *)
C6_Witness ==
  /\ WordscapesAccepted
  /\ LET raw == Get(InputObject, "missingByLength").a
         out == Get(result.board, "missingByLength").a
     IN /\ Len(raw) = 3 /\ Len(out) = 1
        /\ Get(raw[1], "count") # JNull
        /\ Get(raw[2], "count") = JNull
        /\ Get(raw[3], "count") # JNull
        /\ out[1].o.count = JNull

(* C7: every missingByLength entry of an accepted Wordscapes board has a    *)
(* length in 3..12 and a count that is null or an integer in 0..20, also    *)
(* after raw entries of one length were merged.                             *)
C7_CountInRange ==
  WordscapesAccepted =>
    LET out == Get(result.board, "missingByLength").a
    IN \A i \in 1..Len(out) :
         /\ out[i].o.length.t = "num" /\ out[i].o.length.n \in 3..12
         /\ \/ out[i].o.count = JNull
            \/ out[i].o.count.t = "num" /\ out[i].o.count.n \in 0..20

(* C8: leniency is scoped to the optional fields: a decoded Wordscapes      *)
(* object with allowed keys and valid letters and missingByLength is        *)
(* accepted whatever notes, wordLists and solvedWordsByLength hold, and any *)
(* violation in letters or missingByLength rejects the board.               *)
C8_LeniencyOnlyForOptionalFields ==
  pc = "parsed" /\ normalizer = "parseWordscapes"
      /\ DOMAIN InputObject.o \subseteq WordscapesAllowList =>
    LET lettersValid == IsOk(normalizeLetters(Get(InputObject, "letters")))
        missingValid == IsOk(normalizeMissingByLength(Get(InputObject, "missingByLength")))
    IN /\ lettersValid /\ missingValid => IsSuccess(result)
       /\ ~lettersValid \/ ~missingValid => ~IsOk(result)

ClaimedSuspiciousTokens ==
  { <<"F", "R", "E", "E">>, <<"H", "I", "N", "T">>, <<"C", "O", "I", "N">>,
    <<"C", "O", "I", "N", "S">>, <<"L", "E", "V", "E", "L">>, <<"D", "A", "I", "L", "Y">> }

(* what the claim says position i of a surviving entry of length n holds *)
ExpectedSlot(slot, n) ==
  LET word == ToUpperCase(Trim(slot.s))
  IN IF /\ slot.t = "str"
        /\ Len(word) = n
        /\ \A i \in 1..Len(word) : word[i] \in Letters
        /\ ~\E token \in ClaimedSuspiciousTokens : Includes(word, token)
     THEN JStr(word)
     ELSE JNull

(* the indices, ascending, of the sequence's elements that satisfy Test *)
IndicesWhere(seq, Test(_)) ==
  LET At(k) == Test(seq[k])
  IN SelectSeq([k \in 1..Len(seq) |-> k], At)

(* a raw wordLists entry that survives: a plain object with an integer *)
(* length in 3..12 and a slots array                                   *)
Survives(entry) ==
  /\ entry.t = "obj"
  /\ ToNumber(Get(entry, "length")).t = "num"
  /\ ToNumber(Get(entry, "length")).n \in 3..12
  /\ Get(entry, "slots").t = "arr"

(* the arrays of the board that are left out when empty *)
BoardArray(key) ==
  IF key \in DOMAIN result.board.o THEN result.board.o[key].a ELSE <<>>

(* C9: a surviving wordLists entry keeps one output slot per input slot;    *)
(* position i holds the trimmed, upper-cased input string when that is made *)
(* of A-Z only, has the entry's length and contains no suspicious token,    *)
(* and null otherwise; a bad slot neither removes the entry nor fails the   *)
(* parse.                                                                   *)
C9_SlotsKeepPositions ==
  WordscapesAccepted /\ Get(InputObject, "wordLists").t = "arr" =>
    LET raw == Get(InputObject, "wordLists").a
        out == BoardArray("wordLists")
    IN \A n \in 3..12 :
         LET RawHasLength(e) == Survives(e) /\ ToNumber(Get(e, "length")).n = n
             OutHasLength(e) == e.o.length.n = n
             rawOfLength == IndicesWhere(raw, RawHasLength)
             outOfLength == IndicesWhere(out, OutHasLength)
         IN /\ Len(rawOfLength) = Len(outOfLength)
            /\ \A j \in 1..Len(rawOfLength) :
                 LET rawSlots == Get(raw[rawOfLength[j]], "slots").a
                     outSlots == out[outOfLength[j]].o.slots.a
                 IN /\ Len(outSlots) = Len(rawSlots)
                    /\ \A i \in 1..Len(rawSlots) : outSlots[i] = ExpectedSlot(rawSlots[i], n)

(* length 4 with slots CATS, DOGS, FREEZ came out as CATS, DOGS, null *)
C9_Witness ==
  /\ WordscapesAccepted
  /\ Get(InputObject, "wordLists").t = "arr"
  /\ \E k \in 1..Len(Get(InputObject, "wordLists").a) :
       Get(Get(InputObject, "wordLists").a[k], "slots") =
         JArr(<<JStr(<<"C", "A", "T", "S">>), JStr(<<"D", "O", "G", "S">>),
                JStr(<<"F", "R", "E", "E", "Z">>)>>)
  /\ \E j \in 1..Len(BoardArray("wordLists")) :
       BoardArray("wordLists")[j] =
         WordListEntry(4, <<JStr(<<"C", "A", "T", "S">>), JStr(<<"D", "O", "G", "S">>), JNull>>)

(* the slot positions <<entry, slot>> of the output wordLists that hold a *)
(* word of an entry of length n                                            *)
WordPositions(wordLists, n) ==
  {p \in UNION {{<<e, i>> : i \in 1..Len(wordLists[e].o.slots.a)} : e \in 1..Len(wordLists)} :
     wordLists[p[1]].o.length.n = n /\ wordLists[p[1]].o.slots.a[p[2]] # JNull}

Before(p, q) == p[1] < q[1] \/ (p[1] = q[1] /\ p[2] < q[2])

(* words is the first-seen deduplication of the words at the positions *)
IsDerivedFrom(words, wordLists, positions) ==
  LET WordAt(p) == wordLists[p[1]].o.slots.a[p[2]]
      FirstOf(w) == CHOOSE p \in positions :
                      WordAt(p) = w /\ \A q \in positions : WordAt(q) = w => ~Before(q, p)
  IN /\ \A a, b \in 1..Len(words) : a # b => words[a] # words[b]
     /\ Range(words) = {WordAt(p) : p \in positions}
     /\ \A a, b \in 1..Len(words) : a < b => Before(FirstOf(words[a]), FirstOf(words[b]))

(* the values of the raw solvedWordsByLength field an input is varied over *)
OtherRawSolved ==
  { Undefined, JNull,
    JArr(<<JObj([length |-> JNum(3), words |-> JArr(<<JStr(<<"C", "A", "T">>)>>)])>>),
    JArr(<<JObj([length |-> JNum(4), words |-> JArr(<<JStr(<<"Z", "Z", "Z", "Z">>)>>)]),
           JObj([length |-> JObj([toString |-> JNum(1)]), words |-> JArr(<<>>)])>>) }

WithRawSolved(obj, solved) ==
  JObj([key \in (DOMAIN obj.o \ {"solvedWordsByLength"})
                  \cup (IF solved = Undefined THEN {} ELSE {"solvedWordsByLength"}) |->
          IF key = "solvedWordsByLength" THEN solved ELSE obj.o[key]])

SolvedDiagnostic == JStr(<<"Ignored invalid solvedWordsByLength (not an array)">>)

(* C10: when wordLists yields an entry, the output solvedWordsByLength is   *)
(* derived from the output wordLists alone: per length, the non-null slot   *)
(* words of the entries of that length, deduplicated in first-seen order,   *)
(* the groups ascending by length; the raw solvedWordsByLength field has no *)
(* influence on the board.  The raw field is examined only when wordLists   *)
(* is absent or yields no entry.                                            *)
C10_SolvedDerivedFromWordLists ==
  WordscapesAccepted =>
    LET wordLists == BoardArray("wordLists")
        solved == BoardArray("solvedWordsByLength")
        rawSolved == Get(InputObject, "solvedWordsByLength")
        rawNotes == Get(InputObject, "notes")
        notes == BoardArray("notes")
    IN /\ wordLists # <<>> =>
            /\ \A i, j \in 1..Len(solved) : i < j => solved[i].o.length.n < solved[j].o.length.n
            /\ {solved[i].o.length.n : i \in 1..Len(solved)}
                 = {n \in 3..12 : WordPositions(wordLists, n) # {}}
            /\ \A i \in 1..Len(solved) :
                 IsDerivedFrom(solved[i].o.words.a, wordLists,
                               WordPositions(wordLists, solved[i].o.length.n))
            /\ \A other \in OtherRawSolved :
                 LET again == routeParsed(WithRawSolved(InputObject, other)).result
                 IN IsOk(again) /\ again.board = result.board
            /\ SolvedDiagnostic \in Range(notes) =>
                 rawNotes.t = "arr" /\ SolvedDiagnostic \in Range(rawNotes.a)
       /\ wordLists = <<>> /\ rawSolved.t \notin {"undefined", "arr"} =>
            notes # <<>> /\ notes[Len(notes)] = SolvedDiagnostic

(* a derived solvedWordsByLength was returned although the raw field of the *)
(* input named other words                                                  *)
C10_Witness ==
  /\ WordscapesAccepted
  /\ BoardArray("wordLists") # <<>>
  /\ BoardArray("solvedWordsByLength") # <<>>
  /\ Get(InputObject, "solvedWordsByLength").t = "arr"
  /\ Get(InputObject, "solvedWordsByLength").a # <<>>
  /\ \A i \in 1..Len(BoardArray("solvedWordsByLength")) :
       BoardArray("solvedWordsByLength")[i].o.length.n # 3

(* the call went through the Scrabble normalizer the router requires *)
ScrabbleParsed == pc \in {"parsed", "summarized"} /\ normalizer = "parseScrabble"

(* a cell of a canonical grid: null or one upper-case letter *)
IsCanonicalCell(cell) ==
  cell = JNull \/ (IsString(cell) /\ Len(cell.s) = 1 /\ cell.s[1] \in Letters)

IsCanonicalGrid(board) ==
  /\ Get(board, "size") = JNum(15)
  /\ IsArray(Get(board, "tiles"))
  /\ Len(Get(board, "tiles").a) = 15
  /\ \A r \in 1..15 :
       LET row == Get(board, "tiles").a[r]
       IN IsArray(row) /\ Len(row.a) = 15 /\ \A c \in 1..15 : IsCanonicalCell(row.a[c])

(* a raw cell the normalizer has no canonical form for *)
IsBadCell(cell) ==
  cell # JNull /\ ~(IsString(cell) /\ IsSingleLetter(ToUpperCase(Trim(cell.s))))

(* the raw object has one of the shapes the grid and the rack may not have *)
HasBadGridOrRack(obj) ==
  LET rackRaw == Get(obj, "rack")
      boardRaw == Get(obj, "board")
      tilesRaw == Get(boardRaw, "tiles")
  IN \/ IsArray(rackRaw) /\ Len(rackRaw.a) = 8
     \/ /\ isPlainObject(boardRaw)
        /\ \/ ToNumber(Get(boardRaw, "size")) # JNum(15)
           \/ IsArray(tilesRaw) /\ Len(tilesRaw.a) = 14
           \/ /\ IsArray(tilesRaw)
              /\ \E r \in 1..Len(tilesRaw.a) :
                   LET row == tilesRaw.a[r]
                   IN IsArray(row) /\ \/ Len(row.a) # 15
                                      \/ \E c \in 1..Len(row.a) : IsBadCell(row.a[c])

(* C11: a board that leaves the Scrabble normalizer has at most 7 rack      *)
(* tiles and a grid of exactly 15 rows of exactly 15 cells, each null or    *)
(* one upper-case letter; an input with a rack of 8 tiles, a grid of 14     *)
(* rows, a row whose length is not 15, a size other than 15 or a cell that  *)
(* is neither null nor a single letter is rejected with                     *)
(* MODEL_OUTPUT_SCHEMA_INVALID whatever else it contains.                   *)
C11_ScrabbleGridAndRackShape ==
  ScrabbleParsed =>
    /\ IsOk(result) =>
         /\ Len(Get(result.board, "rack").a) <= 7
         /\ IsCanonicalGrid(Get(result.board, "board"))
    /\ HasBadGridOrRack(InputObject) => FailsWith(result, "MODEL_OUTPUT_SCHEMA_INVALID")

(* the call went through either variant of the Scrabble normalizer *)
AnyScrabbleParsed ==
  /\ pc \in {"parsed", "summarized"}
  /\ normalizer \in {"parseScrabble", "parseScrabbleWithPoints"}

AcceptedRack == Get(result.board, "rack").a

IsLetterTile(tile) ==
  /\ Get(tile, "isBlank") = JFalse
  /\ IsString(Get(tile, "letter"))
  /\ Len(Get(tile, "letter").s) = 1
  /\ Get(tile, "letter").s[1] \in Letters

IsBlankTile(tile) == Get(tile, "isBlank") = JTrue /\ Get(tile, "letter") = JNull

(* C12: every tile in the rack of a board that leaves the Scrabble          *)
(* normalizer is a letter tile (isBlank false, letter one A-Z character) or *)
(* a blank tile (isBlank true, letter null); no accepted rack holds a tile  *)
(* with isBlank false and letter null.                                      *)
C12_TilesAreLetterOrBlank ==
  AnyScrabbleParsed /\ IsOk(result) =>
    \A i \in 1..Len(AcceptedRack) :
      IsLetterTile(AcceptedRack[i]) \/ IsBlankTile(AcceptedRack[i])

(* the raw tile carries a letter that is present and not null, and that is *)
(* not a string reducing to one A-Z character                              *)
HasBadLetter(tile) ==
  /\ isPlainObject(tile)
  /\ Get(tile, "letter") \notin {Undefined, JNull}
  /\ ~(IsString(Get(tile, "letter"))
        /\ IsSingleLetter(ToUpperCase(Trim(Get(tile, "letter").s))))

RawRack == Get(InputObject, "rack")

(* C13: in the Scrabble normalizer a rack tile whose letter is present and  *)
(* not null but is not a string that trims and upper-cases to one A-Z       *)
(* character makes the call return MODEL_OUTPUT_SCHEMA_INVALID; the tile is *)
(* never accepted with a null letter.                                       *)
C13_BadLetterRejected ==
  AnyScrabbleParsed /\ IsArray(RawRack)
      /\ (\E i \in 1..Len(RawRack.a) : HasBadLetter(RawRack.a[i])) =>
    FailsWith(result, "MODEL_OUTPUT_SCHEMA_INVALID")

IsValidLetter(letter) ==
  IsString(letter) /\ IsSingleLetter(ToUpperCase(Trim(letter.s)))

HasNoLetter(tile) == Get(tile, "letter") \in {Undefined, JNull}

IsValidPoints(points) == points.t = "num" /\ points.n \in 0..10

WithPoints == normalizer = "parseScrabbleWithPoints"

(* everything of the raw object but its rack tiles is acceptable *)
RestIsAcceptable ==
  /\ DOMAIN InputObject.o \subseteq ALLOWED_TOP_LEVEL_KEYS_SCRABBLE
  /\ IsArray(RawRack)
  /\ Len(RawRack.a) <= 7
  /\ isPlainObject(Get(InputObject, "board"))
  /\ IsCanonicalGrid(Get(InputObject, "board"))

(* a raw tile C14 says is accepted: a blank with any valid letter or none, *)
(* or a tile that is not blank and has a valid letter                      *)
ClaimedAcceptable(tile) ==
  /\ isPlainObject(tile)
  /\ IF Get(tile, "isBlank") = JTrue
     THEN /\ HasNoLetter(tile) \/ IsValidLetter(Get(tile, "letter"))
          /\ WithPoints => Get(tile, "points") = JNum(0)
     ELSE /\ IsValidLetter(Get(tile, "letter"))
          /\ WithPoints => IsValidPoints(Get(tile, "points"))

(* the same, but the variant with points takes a blank only without letter *)
AcceptablePerVariant(tile) ==
  /\ ClaimedAcceptable(tile)
  /\ WithPoints /\ Get(tile, "isBlank") = JTrue => HasNoLetter(tile)

(* in an accepted rack exactly the tiles whose raw isBlank is the literal *)
(* true are blank, and they have a null letter                            *)
BlankOnlyForLiteralTrue ==
  IsOk(result) =>
    /\ Len(AcceptedRack) = Len(RawRack.a)
    /\ \A i \in 1..Len(AcceptedRack) :
         IF Get(RawRack.a[i], "isBlank") = JTrue
         THEN IsBlankTile(AcceptedRack[i])
         ELSE Get(AcceptedRack[i], "isBlank") = JFalse

IsPointsMismatch(tile) ==
  LET points == ToNumber(Get(tile, "points"))
  IN \/ ~(IsInteger(points) /\ points.n \in 0..10)
     \/ Get(tile, "isBlank") = JTrue /\ points # JNum(0)
     \/ Get(tile, "isBlank") # JTrue /\ HasNoLetter(tile)

(* C15: in the Scrabble rack variant whose tiles carry points, a tile is    *)
(* accepted only if its points is an integer in 0..10, a blank tile has     *)
(* points 0 and a tile that is not blank has a letter; any mismatch (points *)
(* missing, not an integer, out of range, a blank with other points, no     *)
(* letter on a tile that is not blank) rejects the board with               *)
(* MODEL_OUTPUT_SCHEMA_INVALID, so every accepted blank tile has points 0.  *)
C15_PointsTilesChecked ==
  pc \in {"parsed", "summarized"} /\ WithPoints =>
    /\ IsOk(result) =>
         \A i \in 1..Len(AcceptedRack) :
           LET tile == AcceptedRack[i]
           IN /\ IsValidPoints(Get(tile, "points"))
              /\ IsBlankTile(tile) \/ IsLetterTile(tile)
              /\ IsBlankTile(tile) => Get(tile, "points") = JNum(0)
    /\ IsArray(RawRack)
         /\ (\E i \in 1..Len(RawRack.a) :
               isPlainObject(RawRack.a[i]) /\ IsPointsMismatch(RawRack.a[i]))
         => FailsWith(result, "MODEL_OUTPUT_SCHEMA_INVALID")

(* buildSummary has returned for a board of the Wordscapes normalizer *)
WordscapesSummarized == pc = "summarized" /\ normalizer = "parseWordscapes"

BoardMissing == Get(result.board, "missingByLength").a

(* text is the strings of items with one space between neighbours *)
IsJoinedBySpaces(text, items) ==
  /\ Len(text) = (IF items = <<>> THEN 0 ELSE 2 * Len(items) - 1)
  /\ \A i \in 1..Len(items) : <<text[2 * i - 1]>> = items[i].s
  /\ \A i \in 1..(Len(items) - 1) : text[2 * i] = " "

(* C16: for every canonical Wordscapes board the summary has letters equal  *)
(* to the board letters joined by single spaces, remainingByLength equal to *)
(* the board's missingByLength unchanged, and totalRemaining null if any    *)
(* count is null, in any position, and the sum of all counts otherwise (0   *)
(* for an empty sequence); never a partial sum.                             *)
C16_WordscapesSummary ==
  WordscapesSummarized =>
    /\ IsString(summary.letters)
    /\ IsJoinedBySpaces(summary.letters.s, Get(result.board, "letters").a)
    /\ summary.remainingByLength = Get(result.board, "missingByLength")
    /\ summary.totalRemaining =
         IF \E i \in 1..Len(BoardMissing) : Get(BoardMissing[i], "count") = JNull
         THEN JNull
         ELSE JNum(SumOfCounts(BoardMissing, 1..Len(BoardMissing)))

(* a summary of a board whose first count is a number and whose second is *)
(* null, with a positive count after it                                   *)
C16_Witness ==
  /\ WordscapesSummarized
  /\ Len(BoardMissing) = 3
  /\ Get(BoardMissing[1], "count") = JNum(0)
  /\ Get(BoardMissing[2], "count") = JNull
  /\ Get(BoardMissing[3], "count") = JNum(1)
  /\ summary.totalRemaining = JNull
  /\ Len(summary.letters.s) = 9

(* buildSummary has returned for a board of a Scrabble normalizer *)
ScrabbleSummarized ==
  /\ pc = "summarized"
  /\ normalizer \in {"parseScrabble", "parseScrabbleWithPoints"}

(* C17: for every board that leaves the Scrabble normalizer, the summary's  *)
(* rack string has one character per rack tile in rack order (an underscore *)
(* for a blank tile, the letter for a letter tile), rackCount is the number *)
(* of tiles in the board's rack and blankCount the number of tiles whose    *)
(* isBlank is true.                                                         *)
C17_ScrabbleSummary ==
  ScrabbleSummarized =>
    /\ IsString(summary.rack)
    /\ Len(summary.rack.s) = Len(AcceptedRack)
    /\ \A i \in 1..Len(AcceptedRack) :
         <<summary.rack.s[i]>> = IF Get(AcceptedRack[i], "isBlank") = JTrue THEN <<"_">>
                                 ELSE Get(AcceptedRack[i], "letter").s
    /\ summary.rackCount = JNum(Len(AcceptedRack))
    /\ summary.blankCount =
         JNum(Cardinality({i \in 1..Len(AcceptedRack) : Get(AcceptedRack[i], "isBlank") = JTrue}))

(* the values JavaScript takes for false in a condition *)
FalsyValues == {JFalse, Undefined, JNull, JNum(0), NaN, JStr(<<>>)}

(* C18: getScrabblePoints(letter, isBlank) returns 0 whenever isBlank is    *)
(* truthy, whatever the letter; when isBlank is falsy it returns the fixed  *)
(* table value, an integer in 0..10, for a string that trims and            *)
(* upper-cases to one A-Z character, and null for every other letter; no    *)
(* call modifies the table.                                                 *)
C18_GetScrabblePoints ==
  /\ pointsTable = SCRABBLE_POINTS
  /\ lookup # NoResult =>
       IF lookup.isBlank \notin FalsyValues THEN lookup.points = JNum(0)
       ELSE IF IsValidLetter(lookup.letter)
       THEN /\ lookup.points = JNum(SCRABBLE_POINTS[ToUpperCase(Trim(lookup.letter.s))[1]])
            /\ lookup.points.n \in 0..10
       ELSE lookup.points = JNull

(* a lower-case padded z looked up with a falsy flag gives the value of Z *)
C18_Witness ==
  /\ lookup # NoResult
  /\ lookup.letter = JStr(<<" ", "z">>)
  /\ lookup.isBlank = JNum(0)
  /\ lookup.points = JNum(10)

LegacyParsed == pc = "parsed" /\ normalizer = "legacy"

(* the decoded object holds a solved word that contains a suspicious token *)
HasSuspiciousSolvedWord ==
  /\ HasDecodedObject
  /\ IsArray(Get(InputObject, "solvedWords"))
  /\ \E i \in 1..Len(Get(InputObject, "solvedWords").a) :
       LET word == Get(InputObject, "solvedWords").a[i]
       IN IsString(word)
          /\ \E token \in ClaimedSuspiciousTokens : Includes(ToUpperCase(Trim(word.s)), token)

(* a raw slot that passes the type and range checks of the single-schema parser *)
IsWellFormedSlot(slot) ==
  /\ isPlainObject(slot)
  /\ LET length == ToNumber(Get(slot, "length"))
         count == ToNumber(Get(slot, "count"))
     IN /\ length.t \in {"num", "frac"}
        /\ count.t \in {"num", "frac"}
        /\ (3 <= length.n /\ length.n <= 12)
        /\ (1 <= count.n /\ count.n <= 20)

(* every key, type, range and unique-letter check of the single-schema *)
(* parser passes on the model text                                     *)
IsWellFormedLegacyInput ==
  /\ HasDecodedObject
  /\ DOMAIN InputObject.o = {"letters", "solvedWords", "unsolvedSlots"}
  /\ LET letters == Get(InputObject, "letters")
         solved == Get(InputObject, "solvedWords")
         unsolved == Get(InputObject, "unsolvedSlots")
     IN /\ IsArray(letters) /\ IsArray(solved) /\ IsArray(unsolved)
        /\ Len(letters.a) \in 5..8
        /\ \A i \in 1..Len(letters.a) : IsValidLetter(letters.a[i])
        /\ Cardinality({ToUpperCase(Trim(letters.a[i].s)) : i \in 1..Len(letters.a)}) >= 5
        /\ \A i \in 1..Len(solved.a) :
             /\ IsString(solved.a[i])
             /\ IsLetterWord(ToUpperCase(Trim(solved.a[i].s)))
             /\ Len(Trim(solved.a[i].s)) >= 2
        /\ \A i \in 1..Len(unsolved.a) : IsWellFormedSlot(unsolved.a[i])

(* C19: in the single-schema parser a solved word that contains a          *)
(* suspicious token (FREEBIE contains FREE) rejects the board with         *)
(* MODEL_OUTPUT_SUSPICIOUS, and that code is returned only when every key, *)
(* type, range and unique-letter check has passed; an input with a         *)
(* suspicious solved word and a structural violation yields                *)
(* MODEL_OUTPUT_NOT_JSON or MODEL_OUTPUT_SCHEMA_INVALID instead.           *)
C19_SuspiciousOnlyWhenWellFormed ==
  LegacyParsed =>
    /\ IsWellFormedLegacyInput /\ HasSuspiciousSolvedWord
         => FailsWith(result, "MODEL_OUTPUT_SUSPICIOUS")
    /\ FailsWith(result, "MODEL_OUTPUT_SUSPICIOUS")
         => IsWellFormedLegacyInput /\ HasSuspiciousSolvedWord
    /\ HasSuspiciousSolvedWord /\ ~IsWellFormedLegacyInput
         => \/ FailsWith(result, "MODEL_OUTPUT_NOT_JSON")
            \/ FailsWith(result, "MODEL_OUTPUT_SCHEMA_INVALID")

(* out is text without the whitespace at its two ends *)
IsTrimOf(out, text) ==
  \E i \in 0..Len(text) : \E j \in i..Len(text) :
    /\ out = SubSeq(text, i + 1, j)
    /\ \A k \in (1..i) \cup ((j + 1)..Len(text)) : IsSpace(text[k])
    /\ out # <<>> => ~IsSpace(out[1]) /\ ~IsSpace(out[Len(out)])

(* the text, trimmed, opens and closes with a fence of its own *)
IsFencedText(text) ==
  \E out \in {TrimText(text)} :
    /\ Len(out) >= 6
    /\ \A k \in 1..3 : out[k] = Ch(Backquote) /\ out[Len(out) - 3 + k] = Ch(Backquote)

----------------------------------------------------------------------------
(* The order of the stages *)

(* the stage an error message belongs to; the router and the normalizers *)
(* share the sentence about missing required fields                      *)
StageOfError(error, entered) ==
  CASE error.message = "Model output is not text." -> "nonString"
    [] error.message = "Model output does not look like JSON." -> "shape"
    [] error.message = "Model output could not be parsed as JSON." -> "decode"
    [] error.message = "Model output JSON is not an object." -> "object"
    [] error.message = "Model output JSON has an unsupported schema." -> "discriminant"
    [] error.message = "Model output JSON is missing required fields." ->
         IF entered = "none" THEN "discriminant" ELSE "required"
    [] error.message = "Model output JSON contains unexpected keys." -> "allowList"
    [] error.message \in {"letters must be an array.", "letters must contain 5 to 8 items.",
                          "letters must contain single A-Z characters.",
                          "letters must contain at least 5 unique characters."} -> "letters"
    [] error.message \in {"missingByLength must be an array.",
                          "missingByLength entries must be objects.",
                          "missingByLength length must be an integer between 3 and 12.",
                          "missingByLength count must be null or an integer between 0 and 20."}
         -> "missingByLength"
    [] error.message \in {"rack must be an array.", "rack must contain 0 to 7 tiles.",
                          "rack tiles must be objects.",
                          "rack tile letter must be a string or null."} -> "rack"
    [] error.message \in {"board must be an object.", "board size must be 15.",
                          "board tiles must be a 15x15 array.",
                          "board tiles must be null or A-Z strings."} -> "board"
    [] OTHER -> "unknown"

(* what is wrong with the raw fields, stated on the raw values *)
LettersFieldFails(lettersRaw) ==
  \/ ~IsArray(lettersRaw)
  \/ Len(lettersRaw.a) \notin 5..8
  \/ \E i \in 1..Len(lettersRaw.a) : ~IsValidLetter(lettersRaw.a[i])
  \/ Cardinality({ToUpperCase(Trim(lettersRaw.a[i].s)) : i \in 1..Len(lettersRaw.a)}) < 5

MissingEntryFails(entry) ==
  \/ ~isPlainObject(entry)
  \/ LET length == ToNumber(Get(entry, "length"))
         count == ToNumber(Get(entry, "count"))
     IN \/ ~(IsInteger(length) /\ length.n \in 3..12)
        \/ Get(entry, "count") # JNull /\ ~(IsInteger(count) /\ count.n \in 0..20)

MissingFieldFails(missingRaw) ==
  \/ ~IsArray(missingRaw)
  \/ \E i \in 1..Len(missingRaw.a) : MissingEntryFails(missingRaw.a[i])

RackFieldFails(rackRaw) ==
  \/ ~IsArray(rackRaw)
  \/ Len(rackRaw.a) > 7
  \/ \E i \in 1..Len(rackRaw.a) :
       \/ ~isPlainObject(rackRaw.a[i])
       \/ Get(rackRaw.a[i], "letter") \notin {Undefined, JNull}
            /\ ~IsString(Get(rackRaw.a[i], "letter"))

BoardFieldFails(boardRaw) ==
  \/ ~isPlainObject(boardRaw)
  \/ ToNumber(Get(boardRaw, "size")) # JNum(15)
  \/ ~IsArray(Get(boardRaw, "tiles"))
  \/ Len(Get(boardRaw, "tiles").a) # 15
  \/ \E r \in 1..15 :
       LET row == Get(boardRaw, "tiles").a[r]
       IN ~IsArray(row) \/ Len(row.a) # 15 \/ \E c \in 1..15 : IsBadCell(row.a[c])

(* the first stage, in the claimed order, that the model text fails *)
EarliestFailingStage ==
  LET text == stripCodeFences(modelText.text)
      parsed == JsonParse(text)
      obj == parsed.value
      schema == Get(obj, "schema")
      game == Get(obj, "game")
      wordscapes == schema = JStr(<<"WORDVINDER_BOARD_EXTRACT_V4">>)
                      /\ game = JStr(<<"WORDSCAPES">>)
      scrabble == schema = JStr(<<"WORDVINDER_SCRABBLE_EXTRACT_V1">>)
                    /\ game = JStr(<<"SCRABBLE">>)
  IN IF ~modelText.isString THEN "nonString"
     ELSE IF ~StartsWithBrace(text) \/ ~EndsWithBrace(text) THEN "shape"
     ELSE IF ~parsed.ok THEN "decode"
     ELSE IF ~isPlainObject(obj) THEN "object"
     ELSE IF ~IsString(schema) \/ ~IsString(game) \/ ~(wordscapes \/ scrabble)
     THEN "discriminant"
     ELSE IF wordscapes
     THEN IF ~(DOMAIN obj.o \subseteq WordscapesAllowList) THEN "allowList"
          ELSE IF {"letters", "missingByLength"} \ DOMAIN obj.o # {} THEN "required"
          ELSE IF LettersFieldFails(Get(obj, "letters")) THEN "letters"
          ELSE IF MissingFieldFails(Get(obj, "missingByLength")) THEN "missingByLength"
          ELSE "none"
     ELSE IF ~(DOMAIN obj.o \subseteq ScrabbleAllowList) THEN "allowList"
          ELSE IF {"rack", "board"} \ DOMAIN obj.o # {} THEN "required"
          ELSE IF RackFieldFails(Get(obj, "rack")) THEN "rack"
          ELSE IF BoardFieldFails(Get(obj, "board")) THEN "board"
          ELSE "none"

RouterStages == {"nonString", "shape", "decode", "object", "discriminant"}

(* C21: the stages run in a fixed order and the error returned is that of  *)
(* the earliest failing stage: non-string check, shape pre-check, decode,  *)
(* plain-object check, discriminant check, then for Wordscapes allow-list, *)
(* required fields, letters, missingByLength (for Scrabble allow-list,     *)
(* required fields, rack, board); a later failure never replaces an        *)
(* earlier one, and no normalizer is entered before the router has matched *)
(* its pair.                                                               *)
C21_EarliestStageFails ==
  pc = "parsed" /\ normalizer \in {"none", "parseWordscapes", "parseScrabble"} =>
    /\ normalizer # "none" <=> EarliestFailingStage \notin RouterStages
    /\ IF EarliestFailingStage = "none" THEN ~IsFailure(result)
       ELSE /\ IsFailure(result)
            /\ StageOfError(result.error, normalizer) = EarliestFailingStage

(***************************************************************************)
(* The notes of a Wordscapes board                                         *)
(***************************************************************************)

WordListsDiagnostic == JStr(<<"Ignored invalid wordLists (not an array)">>)

(* the field is present and is not an array *)
PresentNotArray(value) == value.t \notin {"undefined", "arr"}

(* the raw wordLists yields no entry, so that the raw solvedWordsByLength *)
(* field is examined                                                     *)
SolvedFieldExamined(rawWordLists) ==
  rawWordLists.t = "arr" => \A i \in 1..Len(rawWordLists.a) : ~Survives(rawWordLists.a[i])

(* the notes claimed for an input object *)
ClaimedNotes(obj) ==
  LET rawNotes == Get(obj, "notes")
      rawWordLists == Get(obj, "wordLists")
      rawSolved == Get(obj, "solvedWordsByLength")
  IN (IF rawNotes.t = "arr" THEN SelectSeq(rawNotes.a, IsString) ELSE <<>>)
       \o (IF PresentNotArray(rawWordLists) THEN <<WordListsDiagnostic>> ELSE <<>>)
       \o (IF SolvedFieldExamined(rawWordLists) /\ PresentNotArray(rawSolved)
           THEN <<SolvedDiagnostic>> ELSE <<>>)

(* C22: the notes of an accepted Wordscapes board are the string elements  *)
(* of the input notes in their order (none when notes is absent or not an  *)
(* array), followed by one diagnostic note for each optional field that    *)
(* was examined and found present but not an array; an input that passes   *)
(* the required stages and whose wordLists is present but not an array is  *)
(* accepted, its board has no wordLists key and carries exactly one        *)
(* wordLists diagnostic after the input notes.                             *)
C22_NotesAndDiagnostics ==
  pc = "parsed" /\ normalizer = "parseWordscapes" =>
    /\ IsOk(result) =>
         /\ "notes" \in DOMAIN result.board.o
         /\ result.board.o.notes.t = "arr"
         /\ result.board.o.notes.a = ClaimedNotes(InputObject)
    /\ EarliestFailingStage = "none" /\ PresentNotArray(Get(InputObject, "wordLists")) =>
         /\ IsOk(result)
         /\ "wordLists" \notin DOMAIN result.board.o

(***************************************************************************)
(* The entries of wordLists                                                *)
(***************************************************************************)

(* C23: the output wordLists holds exactly the input entries that are      *)
(* plain objects with an integer length in 3..12 and a slots array, every  *)
(* other entry being skipped without failing the parse; the entries are    *)
(* ascending by length, entries of equal length stay apart and keep their  *)
(* input order, each output entry has the keys length and slots only, and  *)
(* the board has no wordLists key when no entry survives.                  *)
C23_WordListsEntries ==
  pc = "parsed" /\ normalizer = "parseWordscapes" /\ EarliestFailingStage = "none"
      /\ Get(InputObject, "wordLists").t = "arr" =>
    /\ IsOk(result)
    /\ LET raw == Get(InputObject, "wordLists").a
           out == BoardArray("wordLists")
           surviving == IndicesWhere(raw, Survives)
       IN /\ Len(out) = Len(surviving)
          /\ "wordLists" \in DOMAIN result.board.o <=> surviving # <<>>
          /\ \A i \in 1..Len(out) :
               /\ out[i].t = "obj"
               /\ DOMAIN out[i].o = {"length", "slots"}
               /\ out[i].o.slots.t = "arr"
          /\ \A i, j \in 1..Len(out) : i < j => out[i].o.length.n <= out[j].o.length.n
          /\ \A n \in 3..12 :
               LET RawHasLength(e) == Survives(e) /\ ToNumber(Get(e, "length")).n = n
                   OutHasLength(e) == e.o.length = JNum(n)
                   rawOfLength == IndicesWhere(raw, RawHasLength)
                   outOfLength == IndicesWhere(out, OutHasLength)
               IN /\ Len(rawOfLength) = Len(outOfLength)
                  /\ \A k \in 1..Len(rawOfLength) :
                       out[outOfLength[k]].o.slots.a
                         = [s \in 1..Len(Get(raw[rawOfLength[k]], "slots").a) |->
                              ExpectedSlot(Get(raw[rawOfLength[k]], "slots").a[s], n)]

(***************************************************************************)
(* The entries of solvedWordsByLength                                      *)
(***************************************************************************)

(* an upper-case A-Z word of n letters that contains no suspicious token *)
IsCleanWord(word, n) ==
  /\ IsString(word)
  /\ Len(word.s) = n
  /\ \A i \in 1..n : word.s[i] \in Letters
  /\ ~\E token \in ClaimedSuspiciousTokens : Includes(word.s, token)

(* C24: in every accepted Wordscapes board that has a solvedWordsByLength  *)
(* key, whether derived from wordLists or taken from the raw field, the    *)
(* entries are ascending by length, each length of 3..12 appears in at     *)
(* most one entry, and every word of an entry is an upper-case A-Z word of *)
(* exactly the entry's length, contains no suspicious token and appears at *)
(* most once within the entry.                                             *)
C24_SolvedWordsByLengthShape ==
  WordscapesAccepted /\ "solvedWordsByLength" \in DOMAIN result.board.o =>
    LET solved == result.board.o.solvedWordsByLength.a
    IN /\ \A i, j \in 1..Len(solved) : i < j => solved[i].o.length.n <= solved[j].o.length.n
       /\ \A i, j \in 1..Len(solved) : i # j => solved[i].o.length # solved[j].o.length
       /\ \A i \in 1..Len(solved) :
            LET words == solved[i].o.words.a
            IN /\ solved[i].o.length.t = "num" /\ solved[i].o.length.n \in 3..12
               /\ \A k \in 1..Len(words) : IsCleanWord(words[k], solved[i].o.length.n)
               /\ \A k, m \in 1..Len(words) : k # m => words[k] # words[m]

====
